---- MODULE Spec2Model ----
(***************************************************************************)
(* Athlete monitor dashboard: the WebSocket connection manager             *)
(* (js/websocket.js), the session store (js/storage.js), the rolling chart *)
(* window (js/charts.js) and the dashboard controller (js/dashboard.js).   *)
(*                                                                         *)
(* The browser is single threaded: every action below is one task of the   *)
(* event loop (a user click, a socket event, a timer expiry) run to        *)
(* completion.  The error and close events of one socket are dispatched    *)
(* back to back in one task; inTask keeps any other task from running      *)
(* between them.                                                           *)
(***************************************************************************)
EXTENDS Integers, Sequences, FiniteSets, TLC

VARIABLES
    \* ---- WebSocketManager fields (websocket.js:7-26)
    url,                \* this.url
    ws,                 \* this.ws: 0 is null, otherwise the socket's id
    reconnectAttempts,  \* this.reconnectAttempts
    reconnectDelay,     \* this.reconnectDelay
    reconnectTimeout,   \* this.reconnectTimeout: 0 is null, otherwise a timer id
    isManualDisconnect, \* this.isManualDisconnect
    startTime,          \* this.startTime (0 is null)
    messageCount,       \* this.messageCount
    lastMessageTime,    \* this.lastMessageTime (0 is null)
    lastStateMessage,   \* this.lastStateMessage
    \* ---- the browser around the manager
    readyState,         \* readyState of every WebSocket object still alive
    timers,             \* the setTimeout timers still pending
    inTask,             \* socket whose close event follows its error event, or 0
    now,                \* Date.now()
    \* ---- what the manager told its collaborators
    connState,          \* the state last passed to onConnectionStateChange
    notified,           \* the states notified by the handler that ran last
    callbacks,          \* the other callbacks the handler that ran last invoked
    raised,             \* TRUE when the handler that ran last let an exception out
    \* ---- history of the run (read by the properties only)
    lastOp,             \* the handler that ran last
    consecutive,        \* reconnects scheduled since the last open event
    manualStop,         \* disconnect() was called and connect() not yet called by the user
    closedByDisconnect, \* sockets closed by disconnect() with no connect() call since
    closeOf,            \* whose close event the last handler handled, if it was onclose
    lastFrame,          \* the frame the last handler received, if it was onmessage
    \* ---- StorageManager (storage.js:301-306) and localStorage
    sessionData,        \* this.sessionData: [data, metadata]
    sessionStartTime,   \* this.sessionStartTime (0 is null)
    stored,             \* localStorage item 'athleteMonitorSession'
    \* ---- ChartManager (charts.js:7-15)
    heartRateData,      \* this.heartRateData
    spO2Data,           \* this.spO2Data
    timeLabels,         \* this.timeLabels
    isPaused,           \* this.isPaused
    chartColor,         \* border colours of the two datasets
    \* ---- DashboardController (dashboard.js:563-605)
    lastHeartRate,      \* this.lastHeartRate (NullValue is null)
    lastSpO2,           \* this.lastSpO2 (NullValue is null)
    display,            \* what the DOM elements show
    \* ---- what the handler that ran last showed the user
    alerts,             \* alert() boxes shown
    download,           \* the file it offered for download, or NoFile
    writes,             \* localStorage.setItem calls it made
    lastWrite,          \* how the last of these calls ended, "none" without a call
    answer,             \* the user's answer to its confirm() box, "none" without one
    returned,           \* what clear() returned to it, "none" without a call
    \* ---- history of the session (read by the properties only)
    accepted,           \* payloads stored since the session was last empty
    storageFailed,      \* a localStorage write failed since then
    failures            \* handlers of the run whose first write failed

wsVars == <<url, ws, reconnectAttempts, reconnectDelay, reconnectTimeout,
            isManualDisconnect, startTime, messageCount, lastStateMessage,
            readyState, timers, inTask, connState, notified,
            consecutive, manualStop, closedByDisconnect, closeOf,
            lastMessageTime, callbacks, lastFrame>>

storeVars == <<sessionData, sessionStartTime, stored, heartRateData, spO2Data,
               timeLabels, isPaused, chartColor, lastHeartRate, lastSpO2,
               display, alerts, download, writes, lastWrite, answer, returned,
               accepted, storageFailed, failures>>

vars == <<wsVars, storeVars, now, lastOp, raised>>

-----------------------------------------------------------------------------
(* Bounds of the model *)

\* WebSocket objects alive at one time (the current one and discarded ones
\* whose close event is still to come)
MaxSockets == 2
\* reconnect timers pending at one time
MaxTimers == 2
\* the attempt counter is unbounded in the code; the model stops failing
\* sockets once it reaches this value
MaxAttempts == 7

SockIds == 1..MaxSockets
TimerIds == 1..MaxTimers

-----------------------------------------------------------------------------
(* Program constants *)

\* websocket.js:12 and :51
InitialReconnectDelay == 1000
\* websocket.js:13
maxReconnectDelay == 30000
\* websocket.js:11
maxReconnectAttempts == "Infinity"

\* websocket.js:7, the constructor's default endpoint
DefaultUrl == "ws://10.165.122.115:81"
\* endpoints the user may type into the URL field; the last one carries a
\* fragment, for which new WebSocket(url) throws a SyntaxError
Urls == {DefaultUrl, "ws://esp32.local:81/#live"}
InvalidUrls == {"ws://esp32.local:81/#live"}

\* close codes a close event may carry
CloseCodes == {1000, 1006}

NoTimer == [delay |-> 0, attempt |-> 0]

\* no frame: the handler was not onmessage
NoFrame == [text |-> "none"]

Min(a, b) == IF a <= b THEN a ELSE b

-----------------------------------------------------------------------------
(* Helpers of the connection manager *)

\* new WebSocket(url) throws for a malformed endpoint (websocket.js:46)
ConstructorThrows(u) == u \in InvalidUrls

\* variant of BelowMaxAttempts: the manager gives up after five attempts
BelowFiveAttempts(a) == a < 5

\* this.reconnectAttempts < this.maxReconnectAttempts (websocket.js:135)
BelowMaxAttempts(a) ==
    maxReconnectAttempts = "Infinity" \/ a < maxReconnectAttempts

\* variant of BackoffDelay: the exponent is the counter itself, as if the
\* delay were computed from 2^attempts
BackoffDelayFromCounter(base, attempts) ==
    Min(base * (2 ^ attempts), maxReconnectDelay)

\* Math.min(reconnectDelay * Math.pow(2, attempts - 1), maxReconnectDelay),
\* attempts being the counter after its increment (websocket.js:181-184)
BackoffDelay(base, attempts) ==
    Min(base * (2 ^ (attempts - 1)), maxReconnectDelay)

\* the close reason logged and notified by onclose (websocket.js:117-124)
CloseReason(code) ==
    CASE code = 1000 -> "Normal closure"
      [] code = 1001 -> "Going away"
      [] code = 1002 -> "Protocol error"
      [] code = 1003 -> "Unsupported data"
      [] code = 1006 -> "Abnormal closure (connection lost)"
      [] code = 1011 -> "Server error"
      [] code = 1015 -> "TLS handshake failed"
      [] OTHER -> "Unknown"

\* getState() (websocket.js:213-230)
getState ==
    IF ws = 0 THEN "disconnected"
    ELSE CASE readyState[ws] = "CONNECTING" -> "connecting"
           [] readyState[ws] = "OPEN" -> "connected"
           [] readyState[ws] = "CLOSING" -> "disconnecting"
           [] readyState[ws] = "CLOSED" -> "disconnected"
           [] OTHER -> "unknown"

\* the guard of connect(): this.ws is connecting or open (websocket.js:36)
AlreadyConnected ==
    ws # 0 /\ readyState[ws] \in {"CONNECTING", "OPEN"}

PendingTimers(tm) == {t \in TimerIds : tm[t] # NoTimer}

\* the id setTimeout returns: the lowest one not pending
FreshTimer(tm) ==
    CHOOSE t \in TimerIds :
        /\ tm[t] = NoTimer
        /\ \A u \in TimerIds : u < t => tm[u] # NoTimer

\* socket ids of no live object, given the readyState map
FreeSockets(rs) == {s \in SockIds : rs[s] = "NONE"}

FreshSocket(rs) ==
    CHOOSE s \in FreeSockets(rs) : \A u \in FreeSockets(rs) : s <= u

\* a closed socket the manager no longer references has no handler left to
\* run: the object is dropped
Release(rs, cur) ==
    [s \in SockIds |-> IF rs[s] = "CLOSED" /\ s # cur THEN "NONE" ELSE rs[s]]

-----------------------------------------------------------------------------
(* The session store, the chart window and the dashboard: bounds *)

\* this.maxStorageItems (storage.js, 1000 there): capacity of the session
\* buffer, scaled down so that every run fills and overflows it
maxStorageItems == 3
\* keepCount of clearOldData (storage.js, 500 there; below maxStorageItems)
keepCount == 2
\* this.maxDataPoints (charts.js, 120 there; not above keepCount)
maxDataPoints == 2
\* readings the device sends between two empty sessions
MaxReadings == 4
\* the instants Date.now() takes during a run
Instants == {1, 2}
\* handlers of one run whose localStorage write fails
MaxFailures == 1
\* frames one connection receives (this.messageCount is unbounded)
MaxMessages == 3
\* connections lost in a row in the runs of the whole dashboard
MaxDrops == 1
\* readings of one session in the runs that sweep the vital signs
TrendReadings == 2
\* largest denominator of the vital signs that are not whole numbers
MaxDenominator == 2
\* milliseconds on the clock at the end of the runs that measure the time
\* since the last message
MaxClock == 4000

\* null of a timestamp (Date.now() is never 0) and of a displayed number
Null == 0
NullValue == -1

\* validated payloads the device sends (the fixed schema of websocket.js
\* validateData)
Payloads ==
    { [heartRate |-> 72, spO2 |-> 97, squatCount |-> 3,
       postureStatus |-> "GOOD", fingerDetected |-> TRUE,
       fallDetected |-> FALSE],
      [heartRate |-> 110, spO2 |-> 92, squatCount |-> 2,
       postureStatus |-> "bad", fingerDetected |-> FALSE,
       fallDetected |-> TRUE] }

\* what one localStorage.setItem call does: it stores the item, throws
\* QuotaExceededError, or throws another error
WriteOutcomes == {"ok", "quota", "error"}

NoItem == [item |-> "none"]
NoFile == [kind |-> "none"]

-----------------------------------------------------------------------------
(* Objects and JSON *)

\* { ...base, ...obj }: the fields of both, obj's winning
Spread(base, obj) ==
    [k \in DOMAIN base \cup DOMAIN obj |->
        IF k \in DOMAIN obj THEN obj[k] ELSE base[k]]

\* obj.k = v
SetField(obj, k, v) ==
    [x \in DOMAIN obj \cup {k} |-> IF x = k THEN v ELSE obj[x]]

\* new Date(t).toISOString()
toISOString(t) == <<"ISO", t>>

\* the values JSON.parse returns, each with the type typeof reports
Num(n) == [type |-> "number", num |-> n]
Str(x) == [type |-> "string", str |-> x]
Bool(b) == [type |-> "boolean", bool |-> b]
JsNull == [type |-> "object", null |-> TRUE]
Undefined == [type |-> "undefined"]
\* an object with the properties f; an array is an object too
Obj(f) == [type |-> "object", fields |-> f]
\* an array with the elements items
Arr(items) == [type |-> "object", items |-> items]

\* The session document is kept with plain values (a number as the number,
\* null of a time stamp as Null); these give the property k of the document
\* the type its value has at run time
TypedField(k, v) ==
    CASE k \in {"sessionStart", "sessionEnd", "exportTimestamp"} ->
             IF v = Null THEN JsNull ELSE Num(v)
      [] k \in {"timestamp", "heartRate", "spO2", "squatCount",
                "totalReadings", "lastUpdate"} -> Num(v)
      [] k \in {"date", "postureStatus", "exportDate"} -> Str(v)
      [] k \in {"fingerDetected", "fallDetected"} -> Bool(v)
TypedObject(rec) == Obj([k \in DOMAIN rec |-> TypedField(k, rec[k])])
TypedDocument(doc) ==
    Obj([k \in DOMAIN doc |->
           CASE k = "data" ->
                    Arr([i \in DOMAIN doc.data |-> TypedObject(doc.data[i])])
             [] k = "metadata" -> TypedObject(doc.metadata)
             [] OTHER -> TypedField(k, doc[k])])

\* variant of SerializeValue: a property whose value is null is left out too
RECURSIVE SerializeValueDropsNull(_)
SerializeValueDropsNull(v) ==
    CASE "fields" \in DOMAIN v ->
             Obj([k \in {f \in DOMAIN v.fields :
                           v.fields[f] \notin {Undefined, JsNull}} |->
                    SerializeValueDropsNull(v.fields[k])])
      [] "items" \in DOMAIN v ->
             Arr([i \in DOMAIN v.items |->
                    IF v.items[i] = Undefined THEN JsNull
                    ELSE SerializeValueDropsNull(v.items[i])])
      [] OTHER -> v

\* what JSON.stringify writes of a value: a property whose value is
\* undefined is left out, an undefined array element is written as null
RECURSIVE SerializeValue(_)
SerializeValue(v) ==
    CASE "fields" \in DOMAIN v ->
             Obj([k \in {f \in DOMAIN v.fields : v.fields[f] # Undefined} |->
                    SerializeValue(v.fields[k])])
      [] "items" \in DOMAIN v ->
             Arr([i \in DOMAIN v.items |->
                    IF v.items[i] = Undefined THEN JsNull
                    ELSE SerializeValue(v.items[i])])
      [] OTHER -> v

\* the plain value of a parsed one
RECURSIVE Plain(_)
Plain(v) ==
    CASE "num" \in DOMAIN v -> v.num
      [] "str" \in DOMAIN v -> v.str
      [] "bool" \in DOMAIN v -> v.bool
      [] "null" \in DOMAIN v -> Null
      [] "items" \in DOMAIN v -> [i \in DOMAIN v.items |-> Plain(v.items[i])]
      [] "fields" \in DOMAIN v ->
             [k \in DOMAIN v.fields |-> Plain(v.fields[k])]

\* the parsed value is a session document or an export of one
IsDocument(v) ==
    /\ "fields" \in DOMAIN v
    /\ DOMAIN v.fields \cap {"data", "metadata"} # {}

\* JSON.stringify(value): the text is the tree of the JSON values written.
\* A frame's value is typed already; a session document is typed first.
JSONstringify(value) ==
    [json |-> SerializeValue(IF "type" \in DOMAIN value THEN value
                             ELSE TypedDocument(value))]
\* JSON.parse(text): the values read, plain for a session document
JSONparse(text) ==
    IF IsDocument(text.json) THEN Plain(text.json) ELSE text.json

typeof(v) == v.type

\* v.k: undefined when v has no property k
Get(v, k) ==
    IF "fields" \in DOMAIN v /\ k \in DOMAIN v.fields
    THEN v.fields[k] ELSE Undefined

\* the value as the dashboard and the store compute with it
Unbox(v) ==
    CASE "num" \in DOMAIN v -> v.num
      [] "str" \in DOMAIN v -> v.str
      [] "bool" \in DOMAIN v -> v.bool

\* the payload object handed to the message callback
Payload(obj) == [k \in DOMAIN obj.fields |-> Unbox(obj.fields[k])]

\* variant of validateData: it also checks that heartRate is plausible
validateDataRanged(data) ==
    /\ typeof(data) = "object"
    /\ data # JsNull
    /\ typeof(Get(data, "heartRate")) = "number"
    /\ Get(data, "heartRate").num <= 220
    /\ typeof(Get(data, "spO2")) = "number"
    /\ typeof(Get(data, "squatCount")) = "number"
    /\ typeof(Get(data, "postureStatus")) = "string"
    /\ typeof(Get(data, "fingerDetected")) = "boolean"
    /\ typeof(Get(data, "fallDetected")) = "boolean"

\* validateData(data) (websocket.js:197-208)
validateData(data) ==
    /\ typeof(data) = "object"
    /\ data # JsNull
    /\ typeof(Get(data, "heartRate")) = "number"
    /\ typeof(Get(data, "spO2")) = "number"
    /\ typeof(Get(data, "squatCount")) = "number"
    /\ typeof(Get(data, "postureStatus")) = "string"
    /\ typeof(Get(data, "fingerDetected")) = "boolean"
    /\ typeof(Get(data, "fallDetected")) = "boolean"

\* ---- the frames the device may send

\* the type validateData requires of every field of the schema
Schema ==
    [heartRate |-> "number", spO2 |-> "number", squatCount |-> "number",
     postureStatus |-> "string", fingerDetected |-> "boolean",
     fallDetected |-> "boolean"]

\* a reading as the firmware sends it
Sample ==
    Obj([heartRate |-> Num(72), spO2 |-> Num(97), squatCount |-> Num(3),
         postureStatus |-> Str("GOOD"), fingerDetected |-> Bool(TRUE),
         fallDetected |-> Bool(FALSE)])
\* a reading whose numbers are outside any physiological range
OutOfRange ==
    Obj([heartRate |-> Num(250), spO2 |-> Num(150), squatCount |-> Num(0),
         postureStatus |-> Str("bad"), fingerDetected |-> Bool(FALSE),
         fallDetected |-> Bool(TRUE)])
\* a reading that carries a time stamp of the device's own clock
Stamped ==
    Obj([heartRate |-> Num(72), spO2 |-> Num(97), squatCount |-> Num(3),
         postureStatus |-> Str("GOOD"), fingerDetected |-> Bool(TRUE),
         fallDetected |-> Bool(FALSE), timestamp |-> Num(777)])
WellFormed == {Sample, OutOfRange, Stamped}

\* Sample with field k left out
Without(k) == Obj([f \in DOMAIN Sample.fields \ {k} |-> Sample.fields[f]])
\* Sample with the value of field k replaced
With(k, v) == Obj([Sample.fields EXCEPT ![k] = v])
\* a value of every type JSON has
AnyValues == {Num(1), Str("1"), Bool(TRUE), JsNull}
Defective ==
    {Without(k) : k \in DOMAIN Schema}
    \cup UNION {{With(k, v) : v \in {w \in AnyValues : typeof(w) # Schema[k]}}
                  : k \in DOMAIN Schema}
\* documents that are no object with fields: null, a number, a string, a
\* boolean, an empty array
NonObjects ==
    {JsNull, Num(72), Str("72"), Bool(TRUE), Obj([length |-> Num(0)])}

\* a text frame that is no JSON document
Undecodable == [text |-> "<html>"]
\* JSON.parse(event.data) returns (it throws a SyntaxError otherwise)
Decodable(frame) == "json" \in DOMAIN frame

Frames ==
    {Undecodable}
    \cup {JSONstringify(d) : d \in WellFormed \cup Defective \cup NonObjects}

\* `${now.getMinutes()}:${seconds}` of charts.js updateData
TimeLabel(t) == <<"m:ss", t>>

\* the last n elements of a sequence: seq.slice(-n), n > 0
LastN(seq, n) ==
    IF Len(seq) <= n THEN seq ELSE SubSeq(seq, Len(seq) - n + 1, Len(seq))

RECURSIVE Sum(_)
Sum(seq) == IF seq = <<>> THEN 0 ELSE Head(seq) + Sum(Tail(seq))

SeqMax(seq) ==
    CHOOSE m \in {seq[i] : i \in DOMAIN seq} :
        \A i \in DOMAIN seq : seq[i] <= m
SeqMin(seq) ==
    CHOOSE m \in {seq[i] : i \in DOMAIN seq} :
        \A i \in DOMAIN seq : m <= seq[i]

\* Math.round(a / b) for a >= 0, b > 0: halves round up
RoundDiv(a, b) == (2 * a + b) \div (2 * b)

-----------------------------------------------------------------------------
(* StorageManager *)

EmptySession ==
    [data |-> <<>>,
     metadata |-> [sessionStart |-> Null, sessionEnd |-> Null,
                   totalReadings |-> 0, exportTimestamp |-> Null]]

\* variant of loadSessionData: it always returns the default session
loadSessionDataFresh(item) == EmptySession

\* loadSessionData() (storage.js:311-335) over the stored item
loadSessionData(item) ==
    IF item # NoItem
    THEN LET parsed == JSONparse(item)
         IN  IF "data" \in DOMAIN parsed THEN parsed
             ELSE SetField(parsed, "data", <<>>)
    ELSE EmptySession

\* variant of AppendReading: every reading stamps exportTimestamp
AppendReadingStampsExport(sd, data, t) ==
    LET reading == Spread([timestamp |-> t, date |-> toISOString(t)], data)
        pushed == Append(sd.data, reading)
        limited == IF Len(pushed) > maxStorageItems THEN Tail(pushed)
                   ELSE pushed
        started == IF sd.metadata.sessionStart = Null
                   THEN [sd.metadata EXCEPT !.sessionStart = t]
                   ELSE sd.metadata
    IN  [data |-> limited,
         metadata |-> SetField(SetField(SetField(started, "totalReadings",
                                                 Len(limited)),
                                        "lastUpdate", t),
                               "exportTimestamp", t)]

\* variant of AppendReading: every reading sets sessionStart anew
AppendReadingRestarts(sd, data, t) ==
    LET reading == Spread([timestamp |-> t, date |-> toISOString(t)], data)
        pushed == Append(sd.data, reading)
        limited == IF Len(pushed) > maxStorageItems THEN Tail(pushed)
                   ELSE pushed
        started == [sd.metadata EXCEPT !.sessionStart = t]
    IN  [data |-> limited,
         metadata |-> SetField(SetField(started, "totalReadings", Len(limited)),
                               "lastUpdate", t)]

\* variant of AppendReading: the buffer is never shifted
AppendReadingNoShift(sd, data, t) ==
    LET reading == Spread([timestamp |-> t, date |-> toISOString(t)], data)
        pushed == Append(sd.data, reading)
        started == IF sd.metadata.sessionStart = Null
                   THEN [sd.metadata EXCEPT !.sessionStart = t]
                   ELSE sd.metadata
    IN  [data |-> pushed,
         metadata |-> SetField(SetField(started, "totalReadings", Len(pushed)),
                               "lastUpdate", t)]

\* variant of AppendReading: a full buffer drops the reading just pushed
\* (pop() in place of shift())
AppendReadingPop(sd, data, t) ==
    LET reading == Spread([timestamp |-> t, date |-> toISOString(t)], data)
        pushed == Append(sd.data, reading)
        limited == IF Len(pushed) > maxStorageItems
                   THEN SubSeq(pushed, 1, Len(pushed) - 1)
                   ELSE pushed
        started == IF sd.metadata.sessionStart = Null
                   THEN [sd.metadata EXCEPT !.sessionStart = t]
                   ELSE sd.metadata
    IN  [data |-> limited,
         metadata |-> SetField(SetField(started, "totalReadings", Len(limited)),
                               "lastUpdate", t)]

\* the in-memory part of saveReading(data) at instant t (storage.js:341-361)
AppendReading(sd, data, t) ==
    LET reading == Spread([timestamp |-> t, date |-> toISOString(t)], data)
        pushed == Append(sd.data, reading)
        limited == IF Len(pushed) > maxStorageItems THEN Tail(pushed)
                   ELSE pushed
        started == IF sd.metadata.sessionStart = Null
                   THEN [sd.metadata EXCEPT !.sessionStart = t]
                   ELSE sd.metadata
    IN  [data |-> limited,
         metadata |-> SetField(SetField(started, "totalReadings", Len(limited)),
                               "lastUpdate", t)]

\* variant of Truncate: it drops every reading
TruncateAll(sd) ==
    [data |-> <<>>, metadata |-> [sd.metadata EXCEPT !.totalReadings = 0]]

\* variant of Truncate: it drops the old readings and leaves totalReadings
TruncateStaleCount(sd) ==
    [data |-> LastN(sd.data, keepCount), metadata |-> sd.metadata]

\* the truncation of clearOldData() (storage.js:387-390)
Truncate(sd) ==
    LET kept == LastN(sd.data, keepCount)
    IN  [data |-> kept,
         metadata |-> [sd.metadata EXCEPT !.totalReadings = Len(kept)]]

\* persist() (storage.js:369-380) and clearOldData() (storage.js:385-393),
\* which call each other.  outs are the outcomes of the setItem calls still
\* to come (a call after the last of them throws QuotaExceededError); the
\* result is the session, the stored item, the alerts shown and the number
\* of setItem calls made, with the outcome of the last one.
RECURSIVE persist(_, _, _)
RECURSIVE clearOldData(_, _, _)

\* variant of clearOldData: it drops the oldest reading and retries as long
\* as a reading is left
clearOldDataDropsOldest(sd, item, outs) ==
    IF Len(sd.data) > 0
    THEN persist([sd EXCEPT !.data = Tail(@),
                            !.metadata.totalReadings = Len(sd.data) - 1],
                 item, outs)
    ELSE [sessionData |-> sd, stored |-> item, alerts |-> <<>>, writes |-> 0,
          last |-> "none"]

\* variant of persist: it serializes the readings without the metadata
persistDataOnly(sd, item, outs) ==
    IF outs # <<>> /\ Head(outs) = "ok"
    THEN [sessionData |-> sd, stored |-> JSONstringify([data |-> sd.data]),
          alerts |-> <<>>, writes |-> 1, last |-> "ok"]
    ELSE IF outs = <<>> \/ Head(outs) = "quota"
    THEN LET r == clearOldData(sd, item,
                               IF outs = <<>> THEN <<>> ELSE Tail(outs))
         IN  [r EXCEPT
                 !.alerts = <<"Storage quota exceeded. Clearing old data...">>
                            \o @,
                 !.writes = @ + 1,
                 !.last = IF r.writes = 0 THEN "quota" ELSE @]
    ELSE [sessionData |-> sd, stored |-> item, alerts |-> <<>>, writes |-> 1,
          last |-> "error"]

persist(sd, item, outs) ==
    IF outs # <<>> /\ Head(outs) = "ok"
    THEN [sessionData |-> sd, stored |-> JSONstringify(sd),
          alerts |-> <<>>, writes |-> 1, last |-> "ok"]
    ELSE IF outs = <<>> \/ Head(outs) = "quota"
    THEN LET r == clearOldData(sd, item,
                               IF outs = <<>> THEN <<>> ELSE Tail(outs))
         IN  [r EXCEPT
                 !.alerts = <<"Storage quota exceeded. Clearing old data...">>
                            \o @,
                 !.writes = @ + 1,
                 !.last = IF r.writes = 0 THEN "quota" ELSE @]
    ELSE [sessionData |-> sd, stored |-> item, alerts |-> <<>>, writes |-> 1,
          last |-> "error"]

clearOldData(sd, item, outs) ==
    IF Len(sd.data) > keepCount
    THEN persist(Truncate(sd), item, outs)
    ELSE [sessionData |-> sd, stored |-> item, alerts |-> <<>>, writes |-> 0,
          last |-> "none"]

\* variant of getStats: the averages are cut off, not rounded
getStatsTruncatedMean(sd) ==
    LET data == sd.data
        heartRates == [i \in DOMAIN data |-> data[i].heartRate]
        spO2Values == [i \in DOMAIN data |-> data[i].spO2]
        squatCounts == [i \in DOMAIN data |-> data[i].squatCount]
    IN  IF Len(data) = 0
        THEN [totalReadings |-> 0, sessionStart |-> Null,
              avgHeartRate |-> NullValue, avgSpO2 |-> NullValue,
              maxSquats |-> 0]
        ELSE [totalReadings |-> Len(data),
              sessionStart |-> sd.metadata.sessionStart,
              avgHeartRate |-> Sum(heartRates) \div Len(heartRates),
              avgSpO2 |-> Sum(spO2Values) \div Len(spO2Values),
              maxSquats |-> SeqMax(squatCounts),
              minHeartRate |-> SeqMin(heartRates),
              maxHeartRate |-> SeqMax(heartRates)]

\* getStats() (storage.js:509-537)
getStats(sd) ==
    LET data == sd.data
        heartRates == [i \in DOMAIN data |-> data[i].heartRate]
        spO2Values == [i \in DOMAIN data |-> data[i].spO2]
        squatCounts == [i \in DOMAIN data |-> data[i].squatCount]
    IN  IF Len(data) = 0
        THEN [totalReadings |-> 0, sessionStart |-> Null,
              avgHeartRate |-> NullValue, avgSpO2 |-> NullValue,
              maxSquats |-> 0]
        ELSE [totalReadings |-> Len(data),
              sessionStart |-> sd.metadata.sessionStart,
              avgHeartRate |-> RoundDiv(Sum(heartRates), Len(heartRates)),
              avgSpO2 |-> RoundDiv(Sum(spO2Values), Len(spO2Values)),
              maxSquats |-> SeqMax(squatCounts),
              minHeartRate |-> SeqMin(heartRates),
              maxHeartRate |-> SeqMax(heartRates)]

\* getSessionStartTime() (storage.js:542-544)
getSessionStartTime(sst, sd) ==
    IF sst # Null THEN sst ELSE sd.metadata.sessionStart

-----------------------------------------------------------------------------
(* ChartManager *)

\* getHeartRateColor(value) (charts.js:244-261), the border colour
getHeartRateColor(value) ==
    IF value >= 60 /\ value <= 100 THEN "#10b981"
    ELSE IF value >= 101 /\ value <= 120 THEN "#f59e0b"
    ELSE "#ef4444"

\* getSpO2Color(value) (charts.js:266-283), the border colour
getSpO2Color(value) ==
    IF value >= 95 /\ value <= 100 THEN "#10b981"
    ELSE IF value >= 90 /\ value < 95 THEN "#f59e0b"
    ELSE "#ef4444"

\* variant of PushWindow: at capacity the sample that arrives is dropped
PushWindowKeepsOldest(window, sample) ==
    IF Len(window) >= maxDataPoints THEN window ELSE Append(window, sample)

\* push, then shift when over maxDataPoints (charts.js:203-212)
PushWindow(window, sample) ==
    LET pushed == Append(window, sample)
    IN  IF Len(pushed) > maxDataPoints THEN Tail(pushed) ELSE pushed

\* variant of updateData: the two values go to each other's sequence
updateDataSwapped(chart, heartRate, spO2, t) ==
    IF chart.isPaused
    THEN chart
    ELSE [chart EXCEPT
             !.heartRateData = PushWindow(@, spO2),
             !.spO2Data = PushWindow(@, heartRate),
             !.timeLabels = PushWindow(@, TimeLabel(t)),
             !.chartColor = [heartRate |-> getHeartRateColor(heartRate),
                             spO2 |-> getSpO2Color(spO2)]]

\* variant of updateData: a paused chart takes the sample all the same
updateDataWhilePaused(chart, heartRate, spO2, t) ==
    [chart EXCEPT
        !.heartRateData = PushWindow(@, heartRate),
        !.spO2Data = PushWindow(@, spO2),
        !.timeLabels = PushWindow(@, TimeLabel(t)),
        !.chartColor = [heartRate |-> getHeartRateColor(heartRate),
                        spO2 |-> getSpO2Color(spO2)]]

\* updateData(heartRate, spO2) (charts.js:194-239) at instant t on the
\* chart manager's fields: nothing when paused, otherwise the sample is
\* pushed on the three sequences and the two datasets are coloured
updateData(chart, heartRate, spO2, t) ==
    IF chart.isPaused
    THEN chart
    ELSE [chart EXCEPT
             !.heartRateData = PushWindow(@, heartRate),
             !.spO2Data = PushWindow(@, spO2),
             !.timeLabels = PushWindow(@, TimeLabel(t)),
             !.chartColor = [heartRate |-> getHeartRateColor(heartRate),
                             spO2 |-> getSpO2Color(spO2)]]

-----------------------------------------------------------------------------
(* DashboardController: the display *)

\* status.toUpperCase() of the posture strings the device sends
toUpperCase(str) ==
    CASE str = "good" -> "GOOD"
      [] str = "bad" -> "BAD"
      [] str = "fall" -> "FALL"
      [] OTHER -> str

\* variant of HeartRateStatus: High is 121 and above, as the README has it,
\* and a value below 60 is Normal
HeartRateStatusHighAbove(value) ==
    IF value <= 100 THEN "Normal"
    ELSE IF value >= 101 /\ value <= 120 THEN "Elevated"
    ELSE "High"

\* the band of updateHeartRate (dashboard.js:775-789)
HeartRateStatus(value) ==
    IF value >= 60 /\ value <= 100 THEN "Normal"
    ELSE IF value >= 101 /\ value <= 120 THEN "Elevated"
    ELSE "High"

\* the band of updateSpO2 (dashboard.js:824-835)
SpO2Status(value) ==
    IF value >= 95 /\ value <= 100 THEN "Normal"
    ELSE IF value >= 90 /\ value < 95 THEN "Low"
    ELSE "Critical"

\* variant of TrendArrow: a difference of exactly the threshold is a trend
TrendArrowInclusive(last, value, threshold, shown) ==
    IF last # NullValue
    THEN IF value >= last + threshold THEN "up"
         ELSE IF value <= last - threshold THEN "down"
         ELSE "stable"
    ELSE shown

\* the trend arrow against the previous value; shown is the arrow on
\* display, kept when there is no previous value (dashboard.js:791-803 with
\* threshold 2, 837-849 with threshold 1)
TrendArrow(last, value, threshold, shown) ==
    IF last # NullValue
    THEN IF value > last + threshold THEN "up"
         ELSE IF value < last - threshold THEN "down"
         ELSE "stable"
    ELSE shown

\* updateHeartRate(value) (dashboard.js:764-808) on display d
updateHeartRate(d, last, value) ==
    IF value = NullValue
    THEN [d EXCEPT !.heartRate = NullValue, !.hrStatus = "No data"]
    ELSE [d EXCEPT !.heartRate = value,
                   !.hrStatus = HeartRateStatus(value),
                   !.hrTrend = TrendArrow(last, value, 2, @)]

\* updateSpO2(value) (dashboard.js:813-854) on display d
updateSpO2(d, last, value) ==
    IF value = NullValue
    THEN [d EXCEPT !.spO2 = NullValue, !.spO2Status = "No data"]
    ELSE [d EXCEPT !.spO2 = value,
                   !.spO2Status = SpO2Status(value),
                   !.spO2Trend = TrendArrow(last, value, 1, @)]

\* updateSquatCount(count) (dashboard.js:859-871)
updateSquatCount(d, count) ==
    IF count = NullValue THEN [d EXCEPT !.squatCount = 0]
    ELSE [d EXCEPT !.squatCount = count]

\* updatePosture(status) (dashboard.js:876-907); "" is null
updatePosture(d, status) ==
    IF status = "" THEN [d EXCEPT !.posture = "No data"]
    ELSE [d EXCEPT !.posture = toUpperCase(status)]

\* updateFingerDetection(detected) (dashboard.js:912-930); "null" is null
updateFingerDetection(d, detected) ==
    [d EXCEPT !.finger = IF detected = TRUE THEN "Detected"
                         ELSE IF detected = FALSE THEN "Not Detected"
                         ELSE "Unknown"]

\* variant of updateFallDetection: a reading without a fall hides the banner
updateFallDetectionHides(d, detected) ==
    IF detected = TRUE
    THEN [d EXCEPT !.fall = "FALL ALERT!", !.fallAlert = TRUE]
    ELSE [d EXCEPT !.fall = "No alert", !.fallAlert = FALSE]

\* updateFallDetection(detected) (dashboard.js:935-952)
updateFallDetection(d, detected) ==
    IF detected = TRUE
    THEN [d EXCEPT !.fall = "FALL ALERT!", !.fallAlert = TRUE]
    ELSE [d EXCEPT !.fall = "No alert"]

\* updateDataPointCount() (dashboard.js:1045-1048)
updateDataPointCount(d, sd) ==
    [d EXCEPT !.dataPointCount = getStats(sd).totalReadings]

\* updateSessionInfo() (dashboard.js:1053-1064)
updateSessionInfo(d, sst, sd) ==
    [d EXCEPT !.sessionStart = getSessionStartTime(sst, sd),
              !.totalReadings = getStats(sd).totalReadings]

\* resetDisplay() (dashboard.js:1069-1078), its display part
resetDisplay(d, lastHr, lastOx) ==
    updateFallDetection(
        [updatePosture(
            updateSquatCount(
                updateSpO2(updateHeartRate(d, lastHr, NullValue),
                           lastOx, NullValue),
                0),
            "")
         EXCEPT !.finger = "Unknown"],
        FALSE)

\* the display after init() (dashboard.js:610-639): nothing received yet
InitialDisplay ==
    [lastUpdate |-> Null, heartRate |-> NullValue, hrStatus |-> "",
     hrTrend |-> "", spO2 |-> NullValue, spO2Status |-> "",
     spO2Trend |-> "", squatCount |-> 0, posture |-> "", finger |-> "",
     fall |-> "", fallAlert |-> FALSE, dataPointCount |-> 0,
     sessionStart |-> Null, totalReadings |-> 0]

-----------------------------------------------------------------------------
(* The bands of the vital signs over numbers that need not be whole *)

\* the number n/d: validateData asks of heartRate and spO2 that they are
\* numbers (websocket.js:197-208), and a JSON number can have a fraction
Ratio(n, d) == [n |-> n, d |-> d]
\* value >= k, value <= k and value < k for such a number and a literal k
AtLeast(value, k) == value.n >= k * value.d
AtMost(value, k) == value.n <= k * value.d
Under(value, k) == value.n < k * value.d

\* the band of updateHeartRate (dashboard.js:775-789)
HeartRateBand(value) ==
    IF AtLeast(value, 60) /\ AtMost(value, 100) THEN "Normal"
    ELSE IF AtLeast(value, 101) /\ AtMost(value, 120) THEN "Elevated"
    ELSE "High"

\* the band of updateSpO2 (dashboard.js:824-835)
SpO2Band(value) ==
    IF AtLeast(value, 95) /\ AtMost(value, 100) THEN "Normal"
    ELSE IF AtLeast(value, 90) /\ Under(value, 95) THEN "Low"
    ELSE "Critical"

\* variant of HeartRateColor: yellow starts right above 100
HeartRateColorAboveHundred(value) ==
    IF AtLeast(value, 60) /\ AtMost(value, 100) THEN "#10b981"
    ELSE IF ~AtMost(value, 100) /\ AtMost(value, 120) THEN "#f59e0b"
    ELSE "#ef4444"

\* getHeartRateColor(value) (charts.js:244-261), the border colour
HeartRateColor(value) ==
    IF AtLeast(value, 60) /\ AtMost(value, 100) THEN "#10b981"
    ELSE IF AtLeast(value, 101) /\ AtMost(value, 120) THEN "#f59e0b"
    ELSE "#ef4444"

\* getSpO2Color(value) (charts.js:266-283), the border colour
SpO2Color(value) ==
    IF AtLeast(value, 95) /\ AtMost(value, 100) THEN "#10b981"
    ELSE IF AtLeast(value, 90) /\ Under(value, 95) THEN "#f59e0b"
    ELSE "#ef4444"

-----------------------------------------------------------------------------
(* WebSocketManager: the connection quality *)

\* getLatency() (websocket.js:252-260) at instant t; "null" is null
getLatency(lmt, t) ==
    IF lmt = 0
    THEN "null"
    ELSE LET timeSinceLastMessage == t - lmt
         IN  IF timeSinceLastMessage < 1000 THEN "Good"
             ELSE IF timeSinceLastMessage < 3000 THEN "Fair"
             ELSE "Poor"

-----------------------------------------------------------------------------
(* Initial state: the manager as its constructor leaves it, the dashboard  *)
(* having shown 'disconnected' (dashboard.js init)                         *)

InitWS ==
    /\ url = DefaultUrl
    /\ ws = 0
    /\ reconnectAttempts = 0
    /\ reconnectDelay = InitialReconnectDelay
    /\ reconnectTimeout = 0
    /\ isManualDisconnect = FALSE
    /\ startTime = 0
    /\ messageCount = 0
    /\ lastStateMessage = "null"
    /\ readyState = [s \in SockIds |-> "NONE"]
    /\ timers = [t \in TimerIds |-> NoTimer]
    /\ inTask = 0
    /\ connState = "disconnected"
    /\ notified = <<>>
    /\ consecutive = 0
    /\ manualStop = FALSE
    /\ closedByDisconnect = {}
    /\ closeOf = "none"
    /\ lastMessageTime = 0
    /\ callbacks = <<>>
    /\ lastFrame = NoFrame

\* new StorageManager(), new ChartManager() and the controller's fields over
\* an empty localStorage
InitStore ==
    /\ stored = NoItem
    /\ sessionData = loadSessionData(NoItem)
    /\ sessionStartTime = Null
    /\ heartRateData = <<>>
    /\ spO2Data = <<>>
    /\ timeLabels = <<>>
    /\ isPaused = FALSE
    /\ chartColor = [heartRate |-> "#3b82f6", spO2 |-> "#10b981"]
    /\ lastHeartRate = NullValue
    /\ lastSpO2 = NullValue
    /\ display = InitialDisplay
    /\ alerts = <<>>
    /\ download = NoFile
    /\ writes = 0
    /\ lastWrite = "none"
    /\ answer = "none"
    /\ returned = "none"
    /\ accepted = <<>>
    /\ storageFailed = FALSE
    /\ failures = 0

Init ==
    /\ InitWS
    /\ InitStore
    /\ now = 1
    /\ lastOp = "init"
    /\ raised = FALSE

-----------------------------------------------------------------------------
(* The connection manager's operations *)

Note(state, message) == [state |-> state, message |-> message]

\* variant of updateConnectionState: the callback is invoked only when a
\* message comes with the state
updateConnectionStateWithMessage(seq) ==
    LET told == SelectSeq(seq, LAMBDA n : n.message # "null")
    IN  /\ notified' = told
        /\ connState' = IF told = <<>> THEN connState
                        ELSE told[Len(told)].state
        /\ lastStateMessage' =
               IF seq = <<>> THEN lastStateMessage ELSE seq[Len(seq)].message

\* updateConnectionState(state, message), once per element of seq
\* (websocket.js:265-270)
updateConnectionState(seq) ==
    /\ notified' = seq
    /\ connState' = IF seq = <<>> THEN connState ELSE seq[Len(seq)].state
    /\ lastStateMessage' =
           IF seq = <<>> THEN lastStateMessage ELSE seq[Len(seq)].message

\* the model's caps let scheduleReconnect run: the counter is below its
\* cap and a timer id is free
CanSchedule(tm) ==
    reconnectAttempts < MaxAttempts /\ PendingTimers(tm) # TimerIds

\* variant of scheduleReconnect: it returns without setting a timer
scheduleNothing(manual, tm, pre) ==
    /\ timers' = tm
    /\ UNCHANGED <<reconnectAttempts, reconnectTimeout, consecutive>>
    /\ updateConnectionState(pre)

\* scheduleReconnect() (websocket.js:175-192), called with the manual flag
\* it reads, the pending timers tm and the notifications pre already made
\* by its caller
scheduleReconnect(manual, tm, pre) ==
    IF manual
    THEN /\ timers' = tm
         /\ UNCHANGED <<reconnectAttempts, reconnectTimeout, consecutive>>
         /\ updateConnectionState(pre)
    ELSE LET attempts == reconnectAttempts + 1
             delay == BackoffDelay(reconnectDelay, attempts)
             t == FreshTimer(tm)
         IN  /\ reconnectAttempts' = attempts
             /\ consecutive' = consecutive + 1
             /\ timers' = [tm EXCEPT
                    ![t] = [delay |-> delay, attempt |-> consecutive + 1]]
             /\ reconnectTimeout' = t
             /\ updateConnectionState(Append(pre, Note("connecting", "null")))

\* variant of ConstructionFailed: the error is notified and nothing is
\* scheduled
ConstructionFailedNoRetry(tm) ==
    /\ raised' = FALSE
    /\ UNCHANGED <<ws, readyState>>
    /\ scheduleReconnect(TRUE, tm,
           <<Note("connecting", "null"),
             Note("error", "Connection failed: SyntaxError. Check console for details.")>>)

\* the catch block of connect() (websocket.js:140-150): new WebSocket threw
ConstructionFailed(tm) ==
    /\ CanSchedule(tm)
    /\ raised' = FALSE
    /\ UNCHANGED <<ws, readyState>>
    /\ scheduleReconnect(FALSE, tm,
           <<Note("connecting", "null"),
             Note("error", "Connection failed: SyntaxError. Check console for details.")>>)

\* connect(url) (websocket.js:31-151); u = "" is the call without argument,
\* tm the timers pending when it is called
connect(u, tm) ==
    LET target == IF u # "" THEN u ELSE url
    IN  /\ url' = target
        /\ closedByDisconnect' = {}
        /\ UNCHANGED <<reconnectDelay, startTime, messageCount, inTask>>
        /\ IF AlreadyConnected
           THEN /\ timers' = tm
                /\ raised' = FALSE
                /\ UNCHANGED <<ws, readyState, reconnectAttempts,
                               reconnectTimeout, isManualDisconnect,
                               consecutive>>
                /\ updateConnectionState(<<>>)
           ELSE /\ isManualDisconnect' = FALSE
                /\ IF ConstructorThrows(target)
                   THEN ConstructionFailed(tm)
                   ELSE LET rs == Release(readyState, 0)
                        IN  /\ FreeSockets(rs) # {}
                            /\ ws' = FreshSocket(rs)
                            /\ readyState' =
                                 [rs EXCEPT ![FreshSocket(rs)] = "CONNECTING"]
                            /\ timers' = tm
                            /\ raised' = FALSE
                            /\ UNCHANGED <<reconnectAttempts, reconnectTimeout,
                                           consecutive>>
                            /\ updateConnectionState(
                                   <<Note("connecting", "null")>>)

\* the user presses Connect with endpoint u typed (dashboard.js connectBtn
\* -> wsManager.connect(url))
Connect(u) ==
    /\ inTask = 0
    /\ connect(u, timers)
    /\ manualStop' = FALSE
    /\ lastOp' = "Connect"
    /\ callbacks' = <<>>
    /\ lastFrame' = NoFrame
    /\ UNCHANGED lastMessageTime
    /\ closeOf' = "none"
    /\ UNCHANGED storeVars
    /\ UNCHANGED now

\* a reconnect timer expires: its callback calls connect()
\* (websocket.js:189-191)
ReconnectTimerFires(t) ==
    /\ inTask = 0
    /\ timers[t] # NoTimer
    /\ connect("", [timers EXCEPT ![t] = NoTimer])
    /\ lastOp' = "ReconnectTimerFires"
    /\ callbacks' = <<>>
    /\ lastFrame' = NoFrame
    /\ UNCHANGED lastMessageTime
    /\ closeOf' = "none"
    /\ UNCHANGED storeVars
    /\ UNCHANGED <<manualStop, now>>

\* variant of ManualFlagAfterDisconnect: disconnect() leaves the flag alone
ManualFlagUntouched == isManualDisconnect

\* this.isManualDisconnect = true (websocket.js:157)
ManualFlagAfterDisconnect == TRUE

\* disconnect() (websocket.js:156-170)
Disconnect ==
    /\ inTask = 0
    /\ AlreadyConnected => FreeSockets(readyState) # {}
    /\ isManualDisconnect' = ManualFlagAfterDisconnect
    /\ timers' = IF reconnectTimeout # 0
                 THEN [timers EXCEPT ![reconnectTimeout] = NoTimer]
                 ELSE timers
    /\ reconnectTimeout' = 0
    /\ readyState' =
         IF ws = 0 THEN readyState
         ELSE Release([readyState EXCEPT
                  ![ws] = IF @ \in {"CONNECTING", "OPEN"} THEN "CLOSING" ELSE @],
                  0)
    /\ closedByDisconnect' =
         IF ws # 0 /\ readyState[ws] # "CLOSED"
         THEN closedByDisconnect \cup {ws} ELSE closedByDisconnect
    /\ ws' = 0
    /\ updateConnectionState(<<Note("disconnected", "null")>>)
    /\ raised' = FALSE
    /\ manualStop' = TRUE
    /\ lastOp' = "Disconnect"
    /\ callbacks' = <<>>
    /\ lastFrame' = NoFrame
    /\ UNCHANGED lastMessageTime
    /\ closeOf' = "none"
    /\ UNCHANGED storeVars
    /\ UNCHANGED <<url, reconnectAttempts, reconnectDelay, startTime,
                   messageCount, inTask, consecutive, now>>

\* ws.onopen (websocket.js:48-59)
OnOpen(s) ==
    /\ inTask = 0
    /\ readyState[s] = "CONNECTING"
    /\ readyState' = [readyState EXCEPT ![s] = "OPEN"]
    /\ reconnectAttempts' = 0
    /\ reconnectDelay' = InitialReconnectDelay
    /\ startTime' = now
    /\ messageCount' = 0
    /\ consecutive' = 0
    /\ updateConnectionState(<<Note("connected", "null")>>)
    /\ raised' = FALSE
    /\ lastOp' = "OnOpen"
    /\ callbacks' = <<"onConnect">>
    /\ lastFrame' = NoFrame
    /\ UNCHANGED lastMessageTime
    /\ closeOf' = "none"
    /\ UNCHANGED storeVars
    /\ UNCHANGED <<url, ws, reconnectTimeout, isManualDisconnect, timers,
                   inTask, manualStop, closedByDisconnect, now>>

\* the server starts the closing handshake of an open socket: the browser
\* sets readyState to CLOSING; no handler runs
ClosingHandshake(s) ==
    /\ inTask = 0
    /\ readyState[s] = "OPEN"
    /\ FreeSockets(readyState) # {}
    /\ readyState' = [readyState EXCEPT ![s] = "CLOSING"]
    /\ lastOp' = "ClosingHandshake"
    /\ callbacks' = <<>>
    /\ lastFrame' = NoFrame
    /\ UNCHANGED lastMessageTime
    /\ closeOf' = "none"
    /\ UNCHANGED storeVars
    /\ notified' = <<>>
    /\ raised' = FALSE
    /\ UNCHANGED <<url, ws, reconnectAttempts, reconnectDelay,
                   reconnectTimeout, isManualDisconnect, startTime,
                   messageCount, lastStateMessage, timers, inTask, connState,
                   consecutive, manualStop, closedByDisconnect, now>>

\* ws.onerror (websocket.js:96-111): the connection of socket s failed; its
\* close event follows in the same task
OnError(s) ==
    /\ inTask = 0
    /\ readyState[s] \in {"CONNECTING", "OPEN", "CLOSING"}
    /\ isManualDisconnect \/ CanSchedule(timers)
    /\ readyState' = [readyState EXCEPT ![s] = "CLOSED"]
    /\ inTask' = s
    /\ updateConnectionState(<<Note("error",
           "Connection failed. Check if ESP32 is running and reachable.")>>)
    /\ raised' = FALSE
    /\ lastOp' = "OnError"
    /\ callbacks' = <<"onError">>
    /\ lastFrame' = NoFrame
    /\ UNCHANGED lastMessageTime
    /\ closeOf' = "none"
    /\ UNCHANGED storeVars
    /\ UNCHANGED <<url, ws, reconnectAttempts, reconnectDelay,
                   reconnectTimeout, isManualDisconnect, startTime,
                   messageCount, timers, consecutive, manualStop,
                   closedByDisconnect, now>>

\* ws.onclose (websocket.js:113-138) of socket s with close code `code`
OnClose(s, code) ==
    /\ \/ inTask = s
       \/ /\ inTask = 0
          /\ readyState[s] \in {"OPEN", "CLOSING"}
          /\ isManualDisconnect \/ CanSchedule(timers)
    /\ readyState' = Release([readyState EXCEPT ![s] = "CLOSED"], ws)
    /\ inTask' = 0
    /\ closedByDisconnect' = closedByDisconnect \ {s}
    /\ IF ~isManualDisconnect /\ BelowMaxAttempts(reconnectAttempts)
       THEN scheduleReconnect(isManualDisconnect, timers,
                <<Note("disconnected", CloseReason(code))>>)
       ELSE /\ updateConnectionState(
                   <<Note("disconnected", CloseReason(code))>>)
            /\ UNCHANGED <<reconnectAttempts, reconnectTimeout, timers,
                           consecutive>>
    /\ raised' = FALSE
    /\ lastOp' = "OnClose"
    /\ callbacks' = <<"onDisconnect">>
    /\ lastFrame' = NoFrame
    /\ UNCHANGED lastMessageTime
    /\ closeOf' = IF s = ws THEN "current"
                  ELSE IF s \in closedByDisconnect THEN "disconnected"
                  ELSE "discarded"
    /\ UNCHANGED storeVars
    /\ UNCHANGED <<url, ws, reconnectDelay, isManualDisconnect, startTime,
                   messageCount, manualStop, now>>

NextWS ==
    \/ \E u \in Urls : Connect(u)
    \/ Disconnect
    \/ \E t \in TimerIds : ReconnectTimerFires(t)
    \/ \E s \in SockIds : OnOpen(s)
    \/ \E s \in SockIds : ClosingHandshake(s)
    \/ \E s \in SockIds : OnError(s)
    \/ \E s \in SockIds, code \in CloseCodes : OnClose(s, code)

SpecWS == Init /\ [][NextWS]_vars

-----------------------------------------------------------------------------
(* The dashboard's operations *)

\* outcomes of the localStorage.setItem calls of one handler: of its first
\* call, and of the retry after a quota error; any further call fails with a
\* quota error again
WriteScripts ==
    {<<"ok">>, <<"error">>} \cup {<<"quota", o>> : o \in WriteOutcomes}

\* the handler's first write fails, within the bound on failures
CountFailure(outs) ==
    /\ outs[1] # "ok" => failures < MaxFailures
    /\ failures' = IF outs[1] # "ok" THEN failures + 1 ELSE failures

\* what every dashboard handler leaves alone and resets
StoreFrame(op) ==
    /\ inTask = 0
    /\ lastOp' = op
    /\ raised' = FALSE
    /\ UNCHANGED wsVars

\* the csv file of exportCSV() (storage.js:466-493): the header row, then
\* one row of quoted cells per reading
CsvHeader ==
    <<"Timestamp", "Date", "Heart Rate (BPM)", "SpO2 (%)", "Squat Count",
      "Posture Status", "Finger Detected", "Fall Detected">>

\* variant of CsvRow: the two flags are written as true and false
CsvRowRawFlags(reading) ==
    <<reading.timestamp, reading.date, reading.heartRate, reading.spO2,
      reading.squatCount, reading.postureStatus,
      IF reading.fingerDetected THEN "true" ELSE "false",
      IF reading.fallDetected THEN "true" ELSE "false">>

CsvRow(reading) ==
    <<reading.timestamp, reading.date, reading.heartRate, reading.spO2,
      reading.squatCount, reading.postureStatus,
      IF reading.fingerDetected THEN "Yes" ELSE "No",
      IF reading.fallDetected THEN "Yes" ELSE "No">>

\* handleDataUpdate(data) (dashboard.js:734-759), called by the manager's
\* onmessage for a payload that passed validateData; it runs
\* chartManager.updateData (charts.js:194-239) and storageManager.saveReading
\* (storage.js:340-364)
handleDataUpdate(data, outs) ==
    LET shown ==
            updateFallDetection(
              updateFingerDetection(
                updatePosture(
                  updateSquatCount(
                    updateSpO2(
                      updateHeartRate([display EXCEPT !.lastUpdate = now],
                                      lastHeartRate, data.heartRate),
                      lastSpO2, data.spO2),
                    data.squatCount),
                  data.postureStatus),
                data.fingerDetected),
              data.fallDetected)
        start == IF sessionData.metadata.sessionStart = Null THEN now
                 ELSE sessionStartTime
        chart == updateData([heartRateData |-> heartRateData,
                             spO2Data |-> spO2Data,
                             timeLabels |-> timeLabels,
                             isPaused |-> isPaused,
                             chartColor |-> chartColor],
                            data.heartRate, data.spO2, now)
    IN  \E saved \in {persist(AppendReading(sessionData, data, now),
                              stored, outs)} :
        /\ lastHeartRate' = data.heartRate
        /\ lastSpO2' = data.spO2
        /\ heartRateData' = chart.heartRateData
        /\ spO2Data' = chart.spO2Data
        /\ timeLabels' = chart.timeLabels
        /\ chartColor' = chart.chartColor
        /\ sessionData' = saved.sessionData
        /\ stored' = saved.stored
        /\ sessionStartTime' = start
        /\ alerts' = saved.alerts
        /\ writes' = saved.writes
        /\ lastWrite' = saved.last
        /\ answer' = "none"
        /\ returned' = "none"
        /\ download' = NoFile
        /\ display' = updateSessionInfo(
                          updateDataPointCount(shown, saved.sessionData),
                          start, saved.sessionData)
        /\ accepted' = Append(accepted, data)
        /\ storageFailed' = (storageFailed \/ outs[1] # "ok")
        /\ CountFailure(outs)
        /\ UNCHANGED <<isPaused, now>>

\* the device sends a validated payload: the message callback runs
\* handleDataUpdate (dashboard.js:646-648)
HandleDataUpdate(data, outs) ==
    /\ StoreFrame("HandleDataUpdate")
    /\ Len(accepted) < MaxReadings
    /\ handleDataUpdate(data, outs)

\* variant of DropFrame: the dropped frame resets the dashboard's previous
\* values, as resetDisplay() does
DropFrameAndReset(outs) ==
    /\ callbacks' = <<>>
    /\ outs = <<"ok">>
    /\ alerts' = <<>>
    /\ download' = NoFile
    /\ writes' = 0
    /\ lastWrite' = "none"
    /\ answer' = "none"
    /\ returned' = "none"
    /\ lastHeartRate' = NullValue
    /\ lastSpO2' = NullValue
    /\ UNCHANGED <<sessionData, sessionStartTime, stored, heartRateData,
                   spO2Data, timeLabels, isPaused, chartColor, display,
                   accepted, storageFailed, failures, now>>

\* the branches of onmessage that drop the frame (websocket.js:78-93):
\* they log, call nothing and write nothing
DropFrame(outs) ==
    /\ callbacks' = <<>>
    /\ outs = <<"ok">>
    /\ alerts' = <<>>
    /\ download' = NoFile
    /\ writes' = 0
    /\ lastWrite' = "none"
    /\ answer' = "none"
    /\ returned' = "none"
    /\ UNCHANGED <<sessionData, sessionStartTime, stored, heartRateData,
                   spO2Data, timeLabels, isPaused, chartColor, lastHeartRate,
                   lastSpO2, display, accepted, storageFailed, failures, now>>

\* ws.onmessage (websocket.js:61-94) of socket s receiving the text frame
\* `frame`: JSON.parse, validateData, then the message callback, which is
\* handleDataUpdate (dashboard.js:646-648); a frame that does not parse or
\* does not validate is logged and dropped
OnMessage(s, frame, outs) ==
    /\ inTask = 0
    /\ readyState[s] = "OPEN"
    /\ messageCount < MaxMessages
    /\ lastMessageTime' = now
    /\ messageCount' = messageCount + 1
    /\ lastFrame' = frame
    /\ lastOp' = "OnMessage"
    /\ closeOf' = "none"
    /\ notified' = <<>>
    /\ raised' = FALSE
    /\ UNCHANGED <<url, ws, reconnectAttempts, reconnectDelay,
                   reconnectTimeout, isManualDisconnect, startTime,
                   lastStateMessage, readyState, timers, inTask, connState,
                   consecutive, manualStop, closedByDisconnect>>
    /\ IF Decodable(frame) /\ validateData(JSONparse(frame))
       THEN /\ callbacks' = <<"onMessage">>
            /\ Len(accepted) < MaxReadings
            /\ handleDataUpdate(Payload(JSONparse(frame)), outs)
       ELSE DropFrame(outs)

\* variant of ClearHistory: clear() resets the in-memory session before it
\* looks at the user's answer
ClearHistoryResetsFirst(confirmed, outs) ==
    \E saved \in {persist(EmptySession, stored, outs)} :
        /\ StoreFrame("ClearHistory")
        /\ download' = NoFile
        /\ IF confirmed
           THEN /\ sessionData' = saved.sessionData
                /\ stored' = saved.stored
                /\ sessionStartTime' = Null
                /\ alerts' = saved.alerts
                /\ writes' = saved.writes
                /\ lastWrite' = saved.last
                /\ answer' = "yes"
                /\ returned' = "true"
                /\ heartRateData' = <<>>
                /\ spO2Data' = <<>>
                /\ timeLabels' = <<>>
                /\ display' = resetDisplay(
                                  updateSessionInfo(display, Null,
                                                    saved.sessionData),
                                  lastHeartRate, lastSpO2)
                /\ lastHeartRate' = NullValue
                /\ lastSpO2' = NullValue
                /\ accepted' = <<>>
                /\ storageFailed' = (outs[1] # "ok")
                /\ CountFailure(outs)
           ELSE /\ sessionData' = EmptySession
                /\ sessionStartTime' = Null
                /\ alerts' = <<>>
                /\ writes' = 0
                /\ lastWrite' = "none"
                /\ answer' = "no"
                /\ returned' = "false"
                /\ outs = <<"ok">>
                /\ UNCHANGED <<stored, heartRateData, spO2Data, timeLabels,
                               display, lastHeartRate, lastSpO2, accepted,
                               storageFailed, failures>>
        /\ UNCHANGED <<isPaused, chartColor, now>>

\* the Clear History button (dashboard.js:704-710): storageManager.clear()
\* (storage.js:412-428) with the user's answer to confirm(), then
\* chartManager.clear() (charts.js:296-312), updateSessionInfo() and
\* resetDisplay()
ClearHistory(confirmed, outs) ==
    \E saved \in {persist(EmptySession, stored, outs)} :
        /\ StoreFrame("ClearHistory")
        /\ download' = NoFile
        /\ IF confirmed
           THEN /\ sessionData' = saved.sessionData
                /\ stored' = saved.stored
                /\ sessionStartTime' = Null
                /\ alerts' = saved.alerts
                /\ writes' = saved.writes
                /\ lastWrite' = saved.last
                /\ answer' = "yes"
                /\ returned' = "true"
                /\ heartRateData' = <<>>
                /\ spO2Data' = <<>>
                /\ timeLabels' = <<>>
                /\ display' = resetDisplay(
                                  updateSessionInfo(display, Null,
                                                    saved.sessionData),
                                  lastHeartRate, lastSpO2)
                /\ lastHeartRate' = NullValue
                /\ lastSpO2' = NullValue
                /\ accepted' = <<>>
                /\ storageFailed' = (outs[1] # "ok")
                /\ CountFailure(outs)
           ELSE /\ alerts' = <<>>
                /\ writes' = 0
                /\ lastWrite' = "none"
                /\ answer' = "no"
                /\ returned' = "false"
                /\ outs = <<"ok">>
                /\ UNCHANGED <<sessionData, stored, sessionStartTime,
                               heartRateData, spO2Data, timeLabels, display,
                               lastHeartRate, lastSpO2, accepted,
                               storageFailed, failures>>
        /\ UNCHANGED <<isPaused, chartColor, now>>

\* variant of ExportJSON: it ends with clearOldData() in place of persist()
ExportJSONClearsOld(outs) ==
    LET exportData ==
            Spread(sessionData,
                   [exportTimestamp |-> now, exportDate |-> toISOString(now)])
        stamped == [sessionData EXCEPT !.metadata.exportTimestamp = now]
    IN  \E saved \in {clearOldData(stamped, stored, outs)} :
        /\ StoreFrame("ExportJSON")
        /\ download' = [kind |-> "json", content |-> JSONstringify(exportData)]
        /\ sessionData' = saved.sessionData
        /\ stored' = saved.stored
        /\ alerts' = saved.alerts
        /\ writes' = saved.writes
        /\ lastWrite' = saved.last
        /\ answer' = "none"
        /\ returned' = "none"
        /\ storageFailed' = (storageFailed \/ outs[1] # "ok")
        /\ CountFailure(outs)
        /\ UNCHANGED <<sessionStartTime, heartRateData, spO2Data, timeLabels,
                       isPaused, chartColor, lastHeartRate, lastSpO2, display,
                       accepted, now>>

\* exportJSON() (storage.js:433-454)
ExportJSON(outs) ==
    LET exportData ==
            Spread(sessionData,
                   [exportTimestamp |-> now, exportDate |-> toISOString(now)])
        stamped == [sessionData EXCEPT !.metadata.exportTimestamp = now]
    IN  \E saved \in {persist(stamped, stored, outs)} :
        /\ StoreFrame("ExportJSON")
        /\ download' = [kind |-> "json", content |-> JSONstringify(exportData)]
        /\ sessionData' = saved.sessionData
        /\ stored' = saved.stored
        /\ alerts' = saved.alerts
        /\ writes' = saved.writes
        /\ lastWrite' = saved.last
        /\ answer' = "none"
        /\ returned' = "none"
        /\ storageFailed' = (storageFailed \/ outs[1] # "ok")
        /\ CountFailure(outs)
        /\ UNCHANGED <<sessionStartTime, heartRateData, spO2Data, timeLabels,
                       isPaused, chartColor, lastHeartRate, lastSpO2, display,
                       accepted, now>>

\* exportCSV() (storage.js:459-504)
ExportCSV ==
    /\ StoreFrame("ExportCSV")
    /\ IF Len(sessionData.data) = 0
       THEN /\ alerts' = <<"No data to export">>
            /\ download' = NoFile
       ELSE /\ alerts' = <<>>
            /\ download' =
                 [kind |-> "csv",
                  content |-> <<CsvHeader>> \o
                      [i \in DOMAIN sessionData.data |->
                          CsvRow(sessionData.data[i])]]
    /\ writes' = 0
    /\ lastWrite' = "none"
    /\ answer' = "none"
    /\ returned' = "none"
    /\ UNCHANGED <<sessionData, sessionStartTime, stored, heartRateData,
                   spO2Data, timeLabels, isPaused, chartColor, lastHeartRate,
                   lastSpO2, display, accepted, storageFailed, failures,
                   now>>

\* the Pause/Resume button: togglePause() (charts.js:288-291)
TogglePause ==
    /\ StoreFrame("TogglePause")
    /\ isPaused' = ~isPaused
    /\ alerts' = <<>>
    /\ download' = NoFile
    /\ writes' = 0
    /\ lastWrite' = "none"
    /\ answer' = "none"
    /\ returned' = "none"
    /\ UNCHANGED <<sessionData, sessionStartTime, stored, heartRateData,
                   spO2Data, timeLabels, chartColor, lastHeartRate, lastSpO2,
                   display, accepted, storageFailed, failures, now>>

\* the dismiss button of the fall alert (dashboard.js:718-721)
DismissFallAlert ==
    /\ StoreFrame("DismissFallAlert")
    /\ display' = [display EXCEPT !.fallAlert = FALSE]
    /\ alerts' = <<>>
    /\ download' = NoFile
    /\ writes' = 0
    /\ lastWrite' = "none"
    /\ answer' = "none"
    /\ returned' = "none"
    /\ UNCHANGED <<sessionData, sessionStartTime, stored, heartRateData,
                   spO2Data, timeLabels, isPaused, chartColor, lastHeartRate,
                   lastSpO2, accepted, storageFailed, failures, now>>

\* the user reloads the page: init() (dashboard.js:610-639) builds a new
\* StorageManager over the same localStorage (storage.js:301-306), a new
\* ChartManager and a new WebSocketManager, and shows the session info
Reload ==
    LET loaded == loadSessionData(stored)
    IN  /\ inTask = 0
        /\ lastOp' = "Reload"
        /\ raised' = FALSE
        /\ sessionData' = loaded
        /\ sessionStartTime' = Null
        /\ heartRateData' = <<>>
        /\ spO2Data' = <<>>
        /\ timeLabels' = <<>>
        /\ isPaused' = FALSE
        /\ chartColor' = [heartRate |-> "#3b82f6", spO2 |-> "#10b981"]
        /\ lastHeartRate' = NullValue
        /\ lastSpO2' = NullValue
        /\ display' = updateSessionInfo(InitialDisplay, Null, loaded)
        /\ alerts' = <<>>
        /\ download' = NoFile
        /\ writes' = 0
        /\ lastWrite' = "none"
        /\ answer' = "none"
        /\ returned' = "none"
        /\ url' = DefaultUrl
        /\ ws' = 0
        /\ reconnectAttempts' = 0
        /\ reconnectDelay' = InitialReconnectDelay
        /\ reconnectTimeout' = 0
        /\ isManualDisconnect' = FALSE
        /\ startTime' = 0
        /\ messageCount' = 0
        /\ lastMessageTime' = 0
        /\ lastStateMessage' = "null"
        /\ readyState' = [s \in SockIds |-> "NONE"]
        /\ timers' = [t \in TimerIds |-> NoTimer]
        /\ connState' = "disconnected"
        /\ notified' = <<>>
        /\ callbacks' = <<>>
        /\ consecutive' = 0
        /\ manualStop' = FALSE
        /\ closedByDisconnect' = {}
        /\ closeOf' = "none"
        /\ lastFrame' = NoFrame
        /\ UNCHANGED <<stored, accepted, storageFailed, failures,
                       inTask, now>>

\* time passes between two tasks
Tick ==
    /\ inTask = 0
    /\ now + 1 \in Instants
    /\ now' = now + 1
    /\ UNCHANGED <<wsVars, storeVars, lastOp, raised>>

NextStore ==
    \/ \E data \in Payloads, outs \in WriteScripts :
           HandleDataUpdate(data, outs)
    \/ \E confirmed \in BOOLEAN, outs \in WriteScripts :
           ClearHistory(confirmed, outs)
    \/ \E outs \in WriteScripts : ExportJSON(outs)
    \/ ExportCSV
    \/ Tick

SpecStore == Init /\ [][NextStore]_vars

\* the dashboard with page reloads, and the operations that write the
\* session to localStorage
NextReload ==
    \/ \E data \in Payloads, outs \in WriteScripts :
           HandleDataUpdate(data, outs)
    \/ \E confirmed \in BOOLEAN, outs \in WriteScripts :
           ClearHistory(confirmed, outs)
    \/ \E outs \in WriteScripts : ExportJSON(outs)
    \/ Reload

SpecReload == Init /\ [][NextReload]_vars

\* the dashboard connected to the device: frames arrive on the open socket
NextIngest ==
    \/ Connect(DefaultUrl)
    \/ \E s \in SockIds : OnOpen(s)
    \/ \E s \in SockIds, frame \in Frames, outs \in WriteScripts :
           OnMessage(s, frame, outs)
    \/ Tick

SpecIngest == Init /\ [][NextIngest]_vars

\* the whole dashboard (dashboard.js:644-729): the buttons of the page and
\* the events of the socket.  A connection is lost by an error event and the
\* close event that follows it, at most MaxDrops times in a row; the device
\* sends the reading Sample and frames that do not parse; a write to
\* localStorage succeeds, or hits the quota and succeeds when retried.
DashFrames == {JSONstringify(Sample), Undecodable}
DashScripts == {<<"ok">>, <<"quota", "ok">>}

NextDash ==
    \/ Connect(DefaultUrl)
    \/ \E s \in SockIds : OnOpen(s)
    \/ \E s \in SockIds : reconnectAttempts < MaxDrops /\ OnError(s)
    \/ \E s \in SockIds : inTask = s /\ OnClose(s, 1006)
    \/ \E s \in SockIds, frame \in DashFrames, outs \in DashScripts :
           OnMessage(s, frame, outs)
    \/ \E confirmed \in BOOLEAN : ClearHistory(confirmed, <<"ok">>)
    \/ \E outs \in DashScripts : ExportJSON(outs)
    \/ ExportCSV
    \/ TogglePause
    \/ DismissFallAlert

SpecDash == Init /\ [][NextDash]_vars

\* the dashboard and the fall alert: readings with and without a fall, the
\* events of the socket, Clear History and the alert's dismiss button
NextFall ==
    \/ Connect(DefaultUrl)
    \/ Disconnect
    \/ \E s \in SockIds : OnOpen(s)
    \/ \E s \in SockIds : reconnectAttempts < MaxDrops /\ OnError(s)
    \/ \E s \in SockIds : inTask = s /\ OnClose(s, 1006)
    \/ \E s \in SockIds, frame \in {JSONstringify(Sample),
                                   JSONstringify(OutOfRange)} :
           OnMessage(s, frame, <<"ok">>)
    \/ \E confirmed \in BOOLEAN : ClearHistory(confirmed, <<"ok">>)
    \/ DismissFallAlert

SpecFall == Init /\ [][NextFall]_vars

\* heart rates and SpO2 values the device may report: the ends of every
\* band of updateHeartRate and updateSpO2, their neighbours, values far
\* outside, and pairs 1, 2 and 3 apart for the trend arrows
HeartRates == {0, 59, 60, 62, 63, 100, 101, 120, 121, 250}
SpO2Values == {0, 89, 90, 91, 92, 94, 95, 100, 101, 150}
\* the reading Sample with one of these values in it
VitalReadings ==
    {[Payload(Sample) EXCEPT !.heartRate = v] : v \in HeartRates}
    \cup {[Payload(Sample) EXCEPT !.spO2 = v] : v \in SpO2Values}

\* the display of the vital signs: a session of at most TrendReadings
\* readings with these values, then Clear History
NextVitals ==
    \/ \E data \in VitalReadings :
           /\ Len(accepted) < TrendReadings
           /\ HandleDataUpdate(data, <<"ok">>)
    \/ ClearHistory(TRUE, <<"ok">>)

SpecVitals == Init /\ [][NextVitals]_vars

\* milliseconds that pass between two tasks
Gaps == {999, 1000, 2000}

\* d milliseconds pass between two tasks
Elapse(d) ==
    /\ inTask = 0
    /\ now + d <= MaxClock
    /\ now' = now + d
    /\ UNCHANGED <<wsVars, storeVars, lastOp, raised>>

\* frames of the three kinds onmessage tells apart: a reading, a document
\* that fails validateData, a text that does not parse
LatencyFrames ==
    {JSONstringify(Sample), JSONstringify(Without("spO2")), Undecodable}

\* the connection over time: frames arrive on the open socket, milliseconds
\* apart
NextLatency ==
    \/ Connect(DefaultUrl)
    \/ \E s \in SockIds : OnOpen(s)
    \/ \E s \in SockIds, frame \in LatencyFrames :
           OnMessage(s, frame, <<"ok">>)
    \/ \E d \in Gaps : Elapse(d)

SpecLatency == Init /\ [][NextLatency]_vars

\* heart rates from 58 to 122 and SpO2 values from 88 to 102, in steps of
\* 1/d for every denominator d up to MaxDenominator
HeartRateRatios ==
    UNION {{Ratio(n, d) : n \in (58 * d)..(122 * d)} : d \in 1..MaxDenominator}
SpO2Ratios ==
    UNION {{Ratio(n, d) : n \in (88 * d)..(102 * d)} : d \in 1..MaxDenominator}

\* the dashboard shows the heart rate `value` of a reading: the status band
\* of updateHeartRate and the colour updateData gives the dataset
ShowHeartRate(value) ==
    /\ inTask = 0
    /\ display' = [display EXCEPT !.heartRate = value,
                                  !.hrStatus = HeartRateBand(value)]
    /\ chartColor' = [chartColor EXCEPT !.heartRate = HeartRateColor(value)]
    /\ lastOp' = "ShowHeartRate"
    /\ UNCHANGED <<wsVars, sessionData, sessionStartTime, stored,
                   heartRateData, spO2Data, timeLabels, isPaused,
                   lastHeartRate, lastSpO2, alerts, download, writes,
                   lastWrite, answer, returned, accepted, storageFailed,
                   failures, now, raised>>

\* the dashboard shows the SpO2 `value` of a reading: the status band of
\* updateSpO2 and the colour updateData gives the dataset
ShowSpO2(value) ==
    /\ inTask = 0
    /\ display' = [display EXCEPT !.spO2 = value,
                                  !.spO2Status = SpO2Band(value)]
    /\ chartColor' = [chartColor EXCEPT !.spO2 = SpO2Color(value)]
    /\ lastOp' = "ShowSpO2"
    /\ UNCHANGED <<wsVars, sessionData, sessionStartTime, stored,
                   heartRateData, spO2Data, timeLabels, isPaused,
                   lastHeartRate, lastSpO2, alerts, download, writes,
                   lastWrite, answer, returned, accepted, storageFailed,
                   failures, now, raised>>

\* the classification of the vital signs, swept over whole and fractional
\* values
NextBands ==
    \/ \E value \in HeartRateRatios : ShowHeartRate(value)
    \/ \E value \in SpO2Ratios : ShowSpO2(value)

SpecBands == Init /\ [][NextBands]_vars

\* the dashboard and its chart: readings arrive while the user pauses and
\* resumes the chart and clears the history
NextChart ==
    \/ \E data \in Payloads, outs \in DashScripts :
           HandleDataUpdate(data, outs)
    \/ \E confirmed \in BOOLEAN : ClearHistory(confirmed, <<"ok">>)
    \/ TogglePause
    \/ Tick

SpecChart == Init /\ [][NextChart]_vars

\* the scheduling of the browser: some pending timer expires, and a close
\* event that is due (after an error event, or at the end of a closing
\* handshake) is dispatched
SpecWSFair ==
    /\ SpecWS
    /\ WF_vars(\E t \in TimerIds : ReconnectTimerFires(t))
    /\ WF_vars(\E s \in SockIds, code \in CloseCodes :
                   /\ inTask = s \/ readyState[s] = "CLOSING"
                   /\ OnClose(s, code))

-----------------------------------------------------------------------------
(* Properties of the session buffer *)

\* C1: from an empty session, after any sequence of accepted readings,
\* confirmed or declined clears and exports, the buffer holds at most
\* maxStorageItems readings, and metadata.totalReadings and
\* getStats().totalReadings both equal the buffer's length.
C1_BufferBoundedAndCounted ==
    /\ Len(sessionData.data) <= maxStorageItems
    /\ sessionData.metadata.totalReadings = Len(sessionData.data)
    /\ getStats(sessionData).totalReadings = Len(sessionData.data)

\* a reading was accepted into a full buffer, which is full still
C1_Witness ==
    /\ lastOp = "HandleDataUpdate"
    /\ Len(accepted) > maxStorageItems
    /\ Len(sessionData.data) = maxStorageItems
    /\ sessionData.metadata.totalReadings = maxStorageItems

\* the fields of a payload, and a stored reading without its time stamps
PayloadFields ==
    {"heartRate", "spO2", "squatCount", "postureStatus", "fingerDetected",
     "fallDetected"}
PayloadOf(reading) == [k \in PayloadFields |-> reading[k]]
PayloadsOf(data) == [i \in DOMAIN data |-> PayloadOf(data[i])]

\* C2: from an empty session, with no clear and no storage failure, after n
\* accepted messages the buffer holds the payloads of the last
\* min(n, maxStorageItems) of them, in arrival order.
C2_FifoOrder ==
    ~storageFailed =>
        PayloadsOf(sessionData.data) = LastN(accepted, maxStorageItems)

\* one reading more than the capacity was accepted, the first two differing:
\* the buffer starts with the second one inserted
C2_Witness ==
    /\ ~storageFailed
    /\ Len(accepted) = maxStorageItems + 1
    /\ accepted[1] # accepted[2]
    /\ Len(sessionData.data) = maxStorageItems
    /\ PayloadOf(sessionData.data[1]) = accepted[2]

-----------------------------------------------------------------------------
(* Properties of the connection manager *)

\* the delays of the first seven consecutive reconnects, in ms
ExpectedDelays == <<1000, 2000, 4000, 8000, 16000, 30000, 30000>>
ExpectedDelay(k) == IF k <= Len(ExpectedDelays) THEN ExpectedDelays[k] ELSE 30000

\* C3: the k-th consecutive reconnect scheduled with no open event in
\* between carries the delay min(1000 * 2^(k-1), 30000) ms: 1000, 2000, 4000,
\* 8000, 16000, 30000, 30000 for k = 1..7; the counter is incremented before
\* the delay is computed (it equals k once the k-th timer is set), and every
\* delay lies within [1000, 30000].
C3_BackoffDelays ==
    /\ reconnectAttempts = consecutive
    /\ \A t \in PendingTimers(timers) :
        /\ timers[t].attempt >= 1
        /\ timers[t].delay = ExpectedDelay(timers[t].attempt)
        /\ timers[t].delay = Min(1000 * (2 ^ (timers[t].attempt - 1)), 30000)
        /\ timers[t].delay >= 1000
        /\ timers[t].delay <= 30000

\* the seventh consecutive reconnect has just been scheduled, 30000 ms ahead
C3_Witness ==
    /\ reconnectAttempts = 7
    /\ reconnectTimeout # 0
    /\ timers[reconnectTimeout] = [delay |-> 30000, attempt |-> 7]

\* C4: when the close event of the socket a manual disconnect() closed is
\* handled, no connect() having been called in between, no reconnect is
\* scheduled: no timer is created and the attempt counter is unchanged.
C4_ManualCloseSchedulesNothing ==
    [][(lastOp' = "OnClose" /\ closeOf' = "disconnected")
         => (timers' = timers /\ reconnectTimeout' = reconnectTimeout
             /\ reconnectAttempts' = reconnectAttempts)]_vars

\* the close event of a socket closed by disconnect() has just been handled
C4_Witness ==
    /\ lastOp = "OnClose"
    /\ closeOf = "disconnected"
    /\ isManualDisconnect
    /\ notified = <<Note("disconnected", CloseReason(1000))>>

\* C5: after a manual disconnect(), no reconnect timer opens a connection
\* until the user calls connect().
C5_NoAutomaticAttemptAfterDisconnect ==
    ~(manualStop /\ lastOp = "ReconnectTimerFires" /\ notified # <<>>)

\* C6: when disconnect() returns, no reconnect timer is pending.
C6_NoTimerAfterDisconnect ==
    lastOp = "Disconnect" => PendingTimers(timers) = {}

\* C7: connect(endpoint) called while the socket is connecting or open is a
\* no-op: no socket is created, nothing is notified, and the manager's state
\* (stored endpoint, manual flag and attempt counter included) is unchanged.
C7_ConnectWhileConnectedChangesNothing ==
    [][(lastOp' = "Connect" /\ AlreadyConnected)
         => /\ notified' = <<>>
            /\ UNCHANGED <<url, ws, readyState, reconnectAttempts,
                           reconnectDelay, reconnectTimeout,
                           isManualDisconnect, timers, connState>>]_vars

\* C8: an open event resets the attempt counter to 0 and the backoff base to
\* 1000 ms, so the first reconnect scheduled after the close of that
\* connection waits 1000 ms.
C8_FirstReconnectAfterOpenWaitsInitialDelay ==
    [][/\ (lastOp' = "OnOpen"
             => reconnectAttempts' = 0
                /\ reconnectDelay' = InitialReconnectDelay)
       /\ (lastOp' = "OnClose" /\ closeOf' = "current"
             /\ readyState[ws] = "OPEN" /\ ~isManualDisconnect
             => timers'[reconnectTimeout'].delay = InitialReconnectDelay)]_vars

\* the model's caps stop the run: the counter is at its cap or every timer
\* id is taken
Capped ==
    reconnectAttempts = MaxAttempts \/ PendingTimers(timers) = TimerIds

\* C9: reconnection is unlimited: every non-manual close of the current
\* socket schedules a reconnect timer, and with timers expiring a timer's
\* callback eventually runs connect() (which opens a socket, fails to, or
\* finds a connection in progress), unless disconnect() is called first or
\* the model's caps stop the run.
C9_CloseSchedules ==
    [][(lastOp' = "OnClose" /\ closeOf' = "current" /\ ~isManualDisconnect)
         => /\ reconnectTimeout' # 0
            /\ timers[reconnectTimeout'] = NoTimer
            /\ timers'[reconnectTimeout'] # NoTimer]_vars

C9_AttemptFollows ==
    (lastOp = "OnClose" /\ closeOf = "current" /\ ~isManualDisconnect)
        ~> \/ lastOp = "ReconnectTimerFires"
                /\ (notified # <<>> \/ AlreadyConnected)
           \/ isManualDisconnect
           \/ Capped

C9_UnlimitedReconnection == C9_CloseSchedules /\ C9_AttemptFollows

\* the current socket closed for the seventh time in a row, and a timer was
\* scheduled again
C9_Witness ==
    /\ lastOp = "OnClose"
    /\ closeOf = "current"
    /\ ~isManualDisconnect
    /\ reconnectAttempts = 7
    /\ reconnectTimeout # 0
    /\ timers[reconnectTimeout] # NoTimer

\* C10: when new WebSocket(url) throws inside connect(), no exception leaves
\* connect(), 'error' is notified, and a reconnect is scheduled by the rule
\* of a close: the counter is incremented to k and the timer waits
\* min(1000 * 2^(k-1), 30000) ms.
C10_ConstructionFailureSchedules ==
    [][(lastOp' \in {"Connect", "ReconnectTimerFires"}
          /\ ~AlreadyConnected /\ ConstructorThrows(url'))
         => /\ raised' = FALSE
            /\ \E i \in DOMAIN notified' : notified'[i].state = "error"
            /\ reconnectAttempts' = reconnectAttempts + 1
            /\ reconnectTimeout' # 0
            /\ timers'[reconnectTimeout'].delay =
                 Min(1000 * (2 ^ (reconnectAttempts' - 1)), 30000)]_vars

\* connect() was called with an endpoint the constructor rejects, a second
\* time in a row: 'error' was notified and a timer of 2000 ms is pending
C10_Witness ==
    /\ lastOp \in {"Connect", "ReconnectTimerFires"}
    /\ ConstructorThrows(url)
    /\ \E i \in DOMAIN notified : notified[i].state = "error"
    /\ ~raised
    /\ reconnectAttempts = 2
    /\ reconnectTimeout # 0
    /\ timers[reconnectTimeout].delay = 2000

\* C11: an error event of a socket invokes the error callback and notifies
\* 'error', and does not stop reconnection: whenever the notified state is
\* 'error' and no manual disconnect is in force, a reconnect timer is
\* eventually set and the notified state is 'connecting' again.
C11_ErrorNotified ==
    [][lastOp' = "OnError"
         => /\ callbacks' = <<"onError">>
            /\ connState' = "error"
            /\ UNCHANGED <<reconnectAttempts, isManualDisconnect, timers>>]_vars

C11_ReconnectFollows ==
    (connState = "error" /\ ~isManualDisconnect)
        ~> \/ /\ connState = "connecting"
              /\ reconnectTimeout # 0
              /\ timers[reconnectTimeout] # NoTimer
           \/ isManualDisconnect

C11_ErrorDoesNotStopReconnection == C11_ErrorNotified /\ C11_ReconnectFollows

\* the error event of the current socket was just handled, with no manual
\* disconnect in force: 'error' is the notified state
C11_Witness ==
    /\ lastOp = "OnError"
    /\ inTask = ws
    /\ ws # 0
    /\ connState = "error"
    /\ callbacks = <<"onError">>
    /\ ~isManualDisconnect

\* the states notified by the last handler, in order
NotifiedStates(seq) == [i \in DOMAIN seq |-> seq[i].state]

\* a step in which connect() starts an attempt
AttemptStarts ==
    lastOp' \in {"Connect", "ReconnectTimerFires"} /\ ~AlreadyConnected

\* a step that sets a reconnect timer
ReconnectScheduled ==
    \E t \in TimerIds : timers'[t] # NoTimer /\ timers'[t] # timers[t]

\* C12: every lifecycle transition of the manager invokes the state-change
\* callback with the new state: 'connecting' first when connect() starts an
\* attempt and last when a reconnect is scheduled, 'connected' on open,
\* 'error' on a socket error and on a construction failure, 'disconnected'
\* on close and on disconnect(); and no handler changes the manager's
\* socket, timer, attempt counter or manual flag without a notification.
C12_TransitionsNotified ==
    [][/\ AttemptStarts
            => notified' # <<>> /\ notified'[1].state = "connecting"
       /\ ReconnectScheduled
            => notified' # <<>>
               /\ notified'[Len(notified')].state = "connecting"
               /\ connState' = "connecting"
       /\ lastOp' = "OnOpen"
            => NotifiedStates(notified') = <<"connected">>
               /\ connState' = "connected"
       /\ lastOp' = "OnError"
            => NotifiedStates(notified') = <<"error">>
               /\ connState' = "error"
       /\ AttemptStarts /\ ConstructorThrows(url')
            => \E i \in DOMAIN notified' : notified'[i].state = "error"
       /\ lastOp' = "OnClose"
            => notified' # <<>> /\ notified'[1].state = "disconnected"
       /\ lastOp' = "Disconnect"
            => NotifiedStates(notified') = <<"disconnected">>
               /\ connState' = "disconnected"
       /\ <<ws, reconnectTimeout, reconnectAttempts, isManualDisconnect>>'
            # <<ws, reconnectTimeout, reconnectAttempts, isManualDisconnect>>
            => notified' # <<>>]_vars

\* a close event was handled and a reconnect scheduled: 'disconnected', then
\* 'connecting' were notified
C12_Witness ==
    /\ lastOp = "OnClose"
    /\ NotifiedStates(notified) = <<"disconnected", "connecting">>
    /\ connState = "connecting"
    /\ reconnectTimeout # 0
    /\ timers[reconnectTimeout] # NoTimer

-----------------------------------------------------------------------------
(* Properties of the ingestion of frames *)

\* the last handler was onmessage and it invoked the message callback
MessageDelivered == lastOp = "OnMessage" /\ callbacks = <<"onMessage">>
\* the last handler was onmessage and it dropped the frame
MessageDropped == lastOp = "OnMessage" /\ callbacks = <<>>

\* a decoded document is a non-null object whose fields of the schema are
\* all present with the declared type
Conforms(d) ==
    /\ d.type = "object"
    /\ "null" \notin DOMAIN d
    /\ \A k \in {"heartRate", "spO2", "squatCount"} :
         k \in DOMAIN d.fields /\ d.fields[k].type = "number"
    /\ "postureStatus" \in DOMAIN d.fields
    /\ d.fields["postureStatus"].type = "string"
    /\ \A k \in {"fingerDetected", "fallDetected"} :
         k \in DOMAIN d.fields /\ d.fields[k].type = "boolean"

\* C13: validateData accepts a decoded payload exactly when it is a non-null
\* object whose heartRate, spO2 and squatCount are numbers, postureStatus is
\* a string and fingerDetected and fallDetected are booleans: a missing or
\* wrong-typed field rejects the message, and no numeric range is checked
\* (the payload with heartRate 250 and spO2 150 is accepted).
C13_ValidateDataTypesOnly ==
    (lastOp = "OnMessage" /\ Decodable(lastFrame))
        => /\ MessageDelivered <=> Conforms(JSONparse(lastFrame))
           /\ JSONparse(lastFrame) \in Defective \cup NonObjects
                => MessageDropped
           /\ lastFrame = JSONstringify(OutOfRange) => MessageDelivered

\* the payload with numbers out of every range was accepted
C13_Witness ==
    /\ MessageDelivered
    /\ lastFrame = JSONstringify(OutOfRange)
    /\ sessionData.data # <<>>
    /\ sessionData.data[Len(sessionData.data)].heartRate = 250

\* the frame handled by the step is undecodable or fails the schema check
BadFrameHandled ==
    /\ lastOp' = "OnMessage"
    /\ ~Decodable(lastFrame') \/ ~Conforms(JSONparse(lastFrame'))

\* C14: a frame that is undecodable or fails the schema check (a payload
\* without fallDetected, say) is skipped without raising: the message
\* callback is not invoked, and the session buffer and metadata, the
\* persisted snapshot, the chart window and the previous values of the trend
\* classifier are unchanged; a valid frame that follows a dropped one is
\* delivered and stored.
C14_BadFrameSkipped ==
    [][/\ BadFrameHandled
            => /\ callbacks' = <<>>
               /\ raised' = FALSE
               /\ UNCHANGED <<sessionData, sessionStartTime, stored,
                              heartRateData, spO2Data, timeLabels,
                              lastHeartRate, lastSpO2>>
       /\ (MessageDropped /\ lastOp' = "OnMessage"
             /\ Decodable(lastFrame') /\ Conforms(JSONparse(lastFrame')))
            => /\ callbacks' = <<"onMessage">>
               /\ sessionData'.data # <<>>
               /\ sessionData'.data[Len(sessionData'.data)].heartRate
                    = JSONparse(lastFrame').fields["heartRate"].num]_vars

\* a valid frame was delivered after a frame of the same connection had
\* been dropped
C14_Witness ==
    /\ MessageDelivered
    /\ messageCount = 2
    /\ Len(accepted) = 1
    /\ Len(sessionData.data) = 1

\* C15: the timestamp of every stored reading is the clock value at the
\* arrival of its frame, never a value the device supplied: whatever fields
\* an accepted payload carries, the reading saveReading appends has the
\* arrival instant as timestamp.
C15_TimestampIsArrivalInstant ==
    MessageDelivered
        => sessionData.data[Len(sessionData.data)].timestamp = lastMessageTime

\* the same, for the payloads that carry no timestamp field of their own
C15_UnstampedOnly ==
    (MessageDelivered /\ lastFrame # JSONstringify(Stamped))
        => sessionData.data[Len(sessionData.data)].timestamp = lastMessageTime

-----------------------------------------------------------------------------
(* Properties of the session metadata and of persistence *)

\* the step is a clear() the user confirmed
ConfirmedClear == lastOp' = "ClearHistory" /\ answer' = "yes"

\* C16: metadata.sessionStart is set to the arrival instant of the first
\* reading of a session and is not overwritten while the session is
\* non-empty: later readings, the eviction of the oldest reading, the
\* truncation after a quota error and exports leave it; only a confirmed
\* clear resets it to null.
C16_SessionStartSetOnce ==
    [][/\ (sessionData.data = <<>> /\ lastOp' = "HandleDataUpdate")
            => sessionData'.metadata.sessionStart = now
       /\ (sessionData.data # <<>> /\ ~ConfirmedClear)
            => sessionData'.metadata.sessionStart
                 = sessionData.metadata.sessionStart
       /\ ConfirmedClear => sessionData'.metadata.sessionStart = Null
       /\ (sessionData'.metadata.sessionStart = Null)
            <=> (sessionData'.data = <<>>)]_vars

\* the first reading arrived at instant 1 and has been evicted since: the
\* oldest reading kept arrived at instant 2, and sessionStart is still 1
C16_Witness ==
    /\ Len(accepted) > maxStorageItems
    /\ sessionData.metadata.sessionStart = 1
    /\ sessionData.data[1].timestamp = 2

\* the last handler was one that mutates the session and persists it:
\* saveReading, a confirmed clear() or exportJSON
MutatorReturned ==
    \/ lastOp \in {"HandleDataUpdate", "ExportJSON"}
    \/ lastOp = "ClearHistory" /\ answer = "yes"

\* C17 as stated: whenever saveReading, a confirmed clear() or exportJSON
\* returns, the document stored under athleteMonitorSession is the
\* serialization of the in-memory session.
C17_AlwaysPersisted ==
    MutatorReturned => stored = JSONstringify(sessionData)

\* C17 as amended: whenever saveReading, a confirmed clear() or exportJSON
\* returns, the stored document is the serialization of the in-memory
\* session if the last setItem call of the operation succeeded, and is the
\* document stored before the operation if that call threw.
C17_PersistedWhenWriteSucceeds ==
    [][MutatorReturned'
         => IF lastWrite' = "ok"
            THEN stored' = JSONstringify(sessionData')
            ELSE stored' = stored]_vars

\* a reading was saved with a quota error on the first write and a
\* successful retry: the truncated session is the one stored
C17_Witness ==
    /\ lastOp = "HandleDataUpdate"
    /\ writes = 2
    /\ lastWrite = "ok"
    /\ Len(sessionData.data) = keepCount
    /\ stored = JSONstringify(sessionData)

-----------------------------------------------------------------------------
(* Properties of the quota fallback and of clear() *)

\* the step is one of a handler: the clock moves only between handlers
HandlerStep == now' = now

\* the session the handler of the step passes to its first setItem call
Attempted ==
    CASE lastOp' = "HandleDataUpdate" ->
             AppendReading(sessionData, accepted'[Len(accepted')], now)
      [] lastOp' = "ExportJSON" ->
             [sessionData EXCEPT !.metadata.exportTimestamp = now]
      [] OTHER -> EmptySession

\* the first setItem call of the step's handler threw QuotaExceededError:
\* it was the only call and threw it, or a second call followed it
QuotaHit ==
    /\ HandlerStep
    /\ MutatorReturned'
    /\ \/ writes' = 1 /\ lastWrite' = "quota"
       \/ writes' = 2

\* the alert of persist() (storage.js:377)
QuotaWarningShown ==
    /\ alerts' # <<>>
    /\ alerts'[1] = "Storage quota exceeded. Clearing old data..."

\* C19 as stated: when a write fails because the quota is exceeded, no
\* exception propagates, the warning is shown, the buffer is cut to its
\* most recent keepCount entries with totalReadings updated, and the write
\* is retried exactly once.
C19_QuotaAlwaysRetried ==
    [][QuotaHit
         => /\ ~raised'
            /\ QuotaWarningShown
            /\ sessionData'.data = LastN(Attempted.data, keepCount)
            /\ sessionData'.metadata.totalReadings = Len(sessionData'.data)
            /\ writes' = 2]_vars

\* C19 as amended: when a write fails because the quota is exceeded, no
\* exception propagates and the warning is shown; if the buffer holds more
\* than keepCount entries it is cut to its most recent keepCount entries
\* with totalReadings updated and the write is retried exactly once;
\* otherwise the session is left as it is and the write is not retried.
C19_QuotaRetriedWhenTruncated ==
    [][QuotaHit
         => /\ ~raised'
            /\ QuotaWarningShown
            /\ IF Len(Attempted.data) > keepCount
               THEN /\ sessionData'.data
                         = SubSeq(Attempted.data,
                                  Len(Attempted.data) - keepCount + 1,
                                  Len(Attempted.data))
                    /\ sessionData'.metadata
                         = [Attempted.metadata
                              EXCEPT !.totalReadings = keepCount]
                    /\ writes' = 2
               ELSE /\ sessionData' = Attempted
                    /\ writes' = 1]_vars

\* a reading filled the buffer, its write and the retry both hit the quota:
\* two warnings, two writes, the buffer cut to keepCount and nothing stored
C19_Witness ==
    /\ lastOp = "HandleDataUpdate"
    /\ Len(accepted) >= maxStorageItems
    /\ writes = 2
    /\ lastWrite = "quota"
    /\ Len(alerts) = 2
    /\ Len(sessionData.data) = keepCount
    /\ sessionData.metadata.totalReadings = keepCount
    /\ stored # JSONstringify(sessionData)

\* the step is a call of clear() from the Clear History button
ClearCalled == HandlerStep /\ lastOp' = "ClearHistory"

\* what a confirmed clear() leaves in memory and returns
ClearedInMemory ==
    /\ sessionData'.data = <<>>
    /\ sessionData'.metadata.sessionStart = Null
    /\ sessionData'.metadata.totalReadings = 0
    /\ sessionData'.metadata.exportTimestamp = Null
    /\ returned' = "true"

\* what a declined clear() returns and leaves alone
DeclinedLeavesAll ==
    /\ returned' = "false"
    /\ UNCHANGED <<sessionData, sessionStartTime, stored, heartRateData,
                   spO2Data, timeLabels, lastHeartRate, lastSpO2>>

\* C20 as stated: clear() acts only on confirmation: confirmed, it empties
\* the buffer, resets the metadata, has the reset session stored and
\* returns true; declined, it returns false and leaves the session, the
\* stored snapshot, the chart window and the trend baseline unchanged.
C20_ClearPersistsReset ==
    [][ClearCalled
         => IF answer' = "yes"
            THEN ClearedInMemory /\ stored' = JSONstringify(sessionData')
            ELSE DeclinedLeavesAll]_vars

\* C20 as amended: the same, with the reset session stored if the setItem
\* call succeeded and the stored snapshot left as it was if that call threw.
C20_ClearOnConfirmation ==
    [][ClearCalled
         => IF answer' = "yes"
            THEN /\ ClearedInMemory
                 /\ IF lastWrite' = "ok"
                    THEN stored' = JSONstringify(sessionData')
                    ELSE stored' = stored
            ELSE /\ answer' = "no"
                 /\ DeclinedLeavesAll]_vars

\* the user declined to clear a session of a full buffer with a chart
\* window and a trend baseline: all of it is still there
DeclinedOverFullSession ==
    /\ lastOp = "ClearHistory"
    /\ answer = "no"
    /\ returned = "false"
    /\ Len(sessionData.data) = maxStorageItems
    /\ stored = JSONstringify(sessionData)
    /\ Len(heartRateData) = maxDataPoints
    /\ lastHeartRate # NullValue

\* the user confirmed, the session was reset and clear() returned true, and
\* the write of the reset session threw: the snapshot of the old session is
\* still the one stored
C20_Witness ==
    /\ lastOp = "ClearHistory"
    /\ answer = "yes"
    /\ returned = "true"
    /\ sessionData = EmptySession
    /\ sessionStartTime = Null
    /\ lastWrite \in {"quota", "error"}
    /\ stored # NoItem
    /\ stored # JSONstringify(sessionData)

-----------------------------------------------------------------------------
(* Properties of the session's life cycle *)

\* C21: a non-empty buffer becomes empty only in a step that is a confirmed
\* clear(): ingestion, eviction, the truncation after a quota error, exports
\* and the events of the socket never empty it.
C21_EmptiedOnlyByConfirmedClear ==
    [][(sessionData.data # <<>> /\ sessionData'.data = <<>>)
         => ConfirmedClear]_vars

\* the connection was lost over a session that had dropped a reading and
\* had been exported: the buffer is full
C21_Witness ==
    /\ lastOp = "OnClose"
    /\ Len(accepted) > maxStorageItems
    /\ Len(sessionData.data) = maxStorageItems
    /\ sessionData.metadata.exportTimestamp # Null

\* the step changes the contents of the reading buffer
BufferChanged == sessionData'.data # sessionData.data

\* the step is onmessage handing a validated payload to the dashboard, which
\* stores it as the newest reading
Ingested ==
    /\ MessageDelivered'
    /\ PayloadOf(sessionData'.data[Len(sessionData'.data)])
         = Payload(JSONparse(lastFrame'))

\* the step is an exportJSON whose write hit the quota over more than
\* keepCount readings, which the fallback cut to the newest keepCount
ExportTruncated ==
    /\ lastOp' = "ExportJSON"
    /\ writes' = 2
    /\ Len(sessionData.data) > keepCount
    /\ sessionData'.data = LastN(sessionData.data, keepCount)

\* C22 as stated: the buffer is changed only by validated ingestion and by a
\* confirmed clear: exportJSON, exportCSV, the getters, chart pause and
\* clear and the events of the connection leave its contents unchanged.
C22_OnlyIngestionMutates ==
    [][BufferChanged => (Ingested \/ ConfirmedClear)]_vars

\* C22 as amended: the buffer is changed only by validated ingestion, by a
\* confirmed clear, and by an exportJSON whose write runs into the quota
\* with more than keepCount readings buffered, which cuts it to the newest
\* keepCount; any other exportJSON, exportCSV, the getters, chart pause and
\* clear and the events of the connection leave its contents unchanged.
C22_OnlyIngestionAndQuotaMutate ==
    [][BufferChanged
         => (Ingested \/ ConfirmedClear \/ ExportTruncated)]_vars

\* an export ran into the quota over a full buffer: the file holds every
\* reading, the buffer the newest keepCount
C22_Witness ==
    /\ lastOp = "ExportJSON"
    /\ writes = 2
    /\ Len(accepted) >= maxStorageItems
    /\ Len(JSONparse(download.content).data) = maxStorageItems
    /\ Len(sessionData.data) = keepCount

-----------------------------------------------------------------------------
(* Properties of the statistics and of the exports *)

\* the sum of field f over the readings
FieldTotal(data, f) ==
    LET upTo[i \in 0..Len(data)] ==
            IF i = 0 THEN 0 ELSE upTo[i - 1] + data[i][f]
    IN  upTo[Len(data)]

\* a is the mean of field f over the readings, rounded to the nearest
\* integer, halves up
IsRoundedMean(a, data, f) ==
    /\ 2 * a * Len(data) - Len(data) <= 2 * FieldTotal(data, f)
    /\ 2 * FieldTotal(data, f) < 2 * a * Len(data) + Len(data)

\* m is the largest (smallest) value of field f over the readings
IsLargest(m, data, f) ==
    /\ \E i \in DOMAIN data : data[i][f] = m
    /\ \A i \in DOMAIN data : data[i][f] <= m
IsSmallest(m, data, f) ==
    /\ \E i \in DOMAIN data : data[i][f] = m
    /\ \A i \in DOMAIN data : data[i][f] >= m

\* C23: getStats() returns, over the readings buffered now: for an empty
\* buffer totalReadings 0 and null averages; otherwise the rounded means of
\* heartRate and spO2, the extremes of heartRate and the largest squatCount.
C23_StatsOverCurrentBuffer ==
    LET stats == getStats(sessionData)
        data == sessionData.data
    IN  IF data = <<>>
        THEN /\ stats.totalReadings = 0
             /\ stats.avgHeartRate = NullValue
             /\ stats.avgSpO2 = NullValue
             /\ stats.maxSquats = 0
        ELSE /\ stats.totalReadings = Len(data)
             /\ IsRoundedMean(stats.avgHeartRate, data, "heartRate")
             /\ IsRoundedMean(stats.avgSpO2, data, "spO2")
             /\ IsSmallest(stats.minHeartRate, data, "heartRate")
             /\ IsLargest(stats.maxHeartRate, data, "heartRate")
             /\ IsLargest(stats.maxSquats, data, "squatCount")

\* the reading with the most squats was the first of the session and has
\* been evicted: maxSquats is below its count, and totalReadings is below
\* the number of readings received
C23_Witness ==
    /\ Len(accepted) > maxStorageItems
    /\ accepted[1].squatCount = 3
    /\ getStats(sessionData).maxSquats = 2
    /\ getStats(sessionData).totalReadings < Len(accepted)

\* metadata.exportTimestamp of the session
ExportStamp == sessionData.metadata.exportTimestamp

\* C24: metadata.exportTimestamp is null in a new session, is set (to the
\* instant of the export) only by exportJSON and reset to null only by a
\* confirmed clear: saveReading, eviction, the truncation after a quota
\* error, exportCSV and getStats leave it.
C24_ExportStampOnlyByExport ==
    /\ ExportStamp = Null
    /\ [][/\ ExportStamp' # ExportStamp
               => \/ lastOp' = "ExportJSON" /\ ExportStamp' = now
                  \/ ConfirmedClear /\ ExportStamp' = Null
          /\ ConfirmedClear => ExportStamp' = Null]_vars

\* an exported session took a reading whose write hit the quota and was
\* truncated: exportTimestamp is still the instant of the export, which is
\* before the reading's
C24_Witness ==
    /\ lastOp = "HandleDataUpdate"
    /\ writes = 2
    /\ Len(sessionData.data) = keepCount
    /\ ExportStamp = 1
    /\ sessionData.metadata.lastUpdate = 2

CsvExportCalled == HandlerStep /\ lastOp' = "ExportCSV"

\* row is the csv row of reading r: its eight cells in the order of the
\* header, the two flags as Yes or No
IsRowOf(row, r) ==
    /\ Len(row) = 8
    /\ row[1] = r.timestamp
    /\ row[2] = r.date
    /\ row[3] = r.heartRate
    /\ row[4] = r.spO2
    /\ row[5] = r.squatCount
    /\ row[6] = r.postureStatus
    /\ row[7] = (IF r.fingerDetected THEN "Yes" ELSE "No")
    /\ row[8] = (IF r.fallDetected THEN "Yes" ELSE "No")

\* C26: exportCSV on an empty session offers no file, shows 'No data to
\* export', raises nothing and leaves the session and the stored snapshot;
\* on a non-empty session the file is the header row followed by one row per
\* buffered reading in buffer order, the two flags rendered as Yes or No.
C26_CsvExport ==
    [][CsvExportCalled
         => /\ ~raised'
            /\ UNCHANGED <<sessionData, sessionStartTime, stored>>
            /\ writes' = 0
            /\ IF sessionData.data = <<>>
               THEN /\ download' = NoFile
                    /\ alerts' = <<"No data to export">>
               ELSE /\ alerts' = <<>>
                    /\ download'.kind = "csv"
                    /\ Len(download'.content) = 1 + Len(sessionData.data)
                    /\ download'.content[1]
                         = <<"Timestamp", "Date", "Heart Rate (BPM)",
                             "SpO2 (%)", "Squat Count", "Posture Status",
                             "Finger Detected", "Fall Detected">>
                    /\ \A i \in DOMAIN sessionData.data :
                           IsRowOf(download'.content[i + 1],
                                   sessionData.data[i])]_vars

\* a csv file of a full buffer whose first reading has a finger and no
\* fall and whose second has a fall and no finger
C26_Witness ==
    /\ lastOp = "ExportCSV"
    /\ download # NoFile
    /\ Len(download.content) = 1 + maxStorageItems
    /\ download.content[2][7] = "Yes"
    /\ download.content[2][8] = "No"
    /\ download.content[3][7] = "No"
    /\ download.content[3][8] = "Yes"
    /\ download.content[2][1] < download.content[1 + maxStorageItems][1]

\* the Export CSV button over an empty session: the alert and no file
CsvOfEmptySession ==
    /\ lastOp = "ExportCSV"
    /\ sessionData.data = <<>>
    /\ download = NoFile
    /\ alerts = <<"No data to export">>

-----------------------------------------------------------------------------
(* Properties of the display of the vital signs *)

\* the last handler showed a reading; Shown is that reading
ReadingShown == lastOp = "HandleDataUpdate"
Shown == accepted[Len(accepted)]

HeartRateBandEdge ==
    /\ ReadingShown
    /\ Len(accepted) = 2
    /\ accepted[1].heartRate = 100
    /\ Shown.heartRate = 101
    /\ display.hrStatus = "Elevated"

\* C28 as stated: the SpO2 status is Normal exactly for 95 to 100, Low
\* exactly for 90 up to 95, and Critical exactly for values below 90.
C28_SpO2Bands ==
    ReadingShown
        => LET v == Shown.spO2
           IN  /\ display.spO2Status = "Normal" <=> (95 <= v /\ v <= 100)
               /\ display.spO2Status = "Low" <=> (90 <= v /\ v < 95)
               /\ display.spO2Status = "Critical" <=> v < 90

\* the same for the values up to 100: there the three bands are exact
C28_SpO2BandsUpTo100 ==
    (ReadingShown /\ Shown.spO2 <= 100)
        => LET v == Shown.spO2
           IN  /\ display.spO2Status = "Normal" <=> (95 <= v /\ v <= 100)
               /\ display.spO2Status = "Low" <=> (90 <= v /\ v < 95)
               /\ display.spO2Status = "Critical" <=> v < 90

\* an SpO2 of 101 is on display as Critical
SpO2AboveHundredCritical ==
    /\ ReadingShown
    /\ Shown.spO2 = 101
    /\ display.spO2Status = "Critical"

\* the heart rate (SpO2) the step's reading is compared with: that of the
\* reading accepted before it in the session
Previous == accepted[Len(accepted)]

\* the arrow for value v against the previous value p with threshold d
Arrow(v, p, d) ==
    IF v - p > d THEN "up" ELSE IF p - v > d THEN "down" ELSE "stable"

\* C29: the trend arrow of a reading compares its value with that of the
\* reading accepted before it: up for a rise of more than 2 (heart rate) or
\* 1 (SpO2), down for such a drop, stable otherwise; the first reading after
\* the start or after a confirmed clear sets no arrow.
C29_TrendAgainstPrevious ==
    [][(HandlerStep /\ lastOp' = "HandleDataUpdate")
         => IF accepted = <<>>
            THEN /\ display'.hrTrend = display.hrTrend
                 /\ display'.spO2Trend = display.spO2Trend
                 /\ Len(sessionData.data) = 0
            ELSE /\ display'.hrTrend
                      = Arrow(accepted'[Len(accepted')].heartRate,
                              Previous.heartRate, 2)
                 /\ display'.spO2Trend
                      = Arrow(accepted'[Len(accepted')].spO2,
                              Previous.spO2, 1)]_vars

\* heart rate 62 after 60: a rise of exactly 2 is shown as stable
C29_Witness ==
    /\ ReadingShown
    /\ Len(accepted) = 2
    /\ accepted[1].heartRate = 60
    /\ Shown.heartRate = 62
    /\ display.hrTrend = "stable"

\* SpO2 92 after 90 is shown as up, and the first reading of the run set no
\* arrow
TrendUpAndNoneAtStart ==
    \/ /\ ReadingShown
       /\ Len(accepted) = 2
       /\ accepted[1].spO2 = 90
       /\ Shown.spO2 = 92
       /\ display.spO2Trend = "up"
    \/ /\ ReadingShown
       /\ Len(accepted) = 1
       /\ display.hrTrend = ""

-----------------------------------------------------------------------------
(* Properties of the fall alert *)

\* the step is a press of the alert's dismiss button
Dismissed == lastOp' = "DismissFallAlert"

\* C30: a reading with fallDetected true shows the fall alert; the alert
\* stays on display through later readings, with or without a fall, the
\* events of the connection and Clear History, until the user dismisses
\* it; the dismissal hides it and changes neither the session nor the
\* stored snapshot.
C30_FallAlertStands ==
    [][/\ (MessageDelivered' /\ Payload(JSONparse(lastFrame')).fallDetected)
            => display'.fallAlert
       /\ (display.fallAlert /\ ~display'.fallAlert) => Dismissed
       /\ (Dismissed /\ display.fallAlert)
            => /\ ~display'.fallAlert
               /\ UNCHANGED <<sessionData, sessionStartTime, stored>>]_vars

\* a fall was reported, the history was cleared and the connection lost:
\* the status line shows no alert any more, the banner still stands
C30_Witness ==
    /\ display.fallAlert
    /\ display.fall = "No alert"
    /\ sessionData.data = <<>>
    /\ stored = JSONstringify(EmptySession)
    /\ lastOp = "OnClose"

\* the banner was dismissed over a session that holds the reading with the
\* fall
FallDismissedSessionKept ==
    /\ lastOp = "DismissFallAlert"
    /\ ~display.fallAlert
    /\ sessionData.data # <<>>
    /\ sessionData.data[Len(sessionData.data)].fallDetected
    /\ stored = JSONstringify(sessionData)

-----------------------------------------------------------------------------
(* Properties of the rolling chart window *)

\* the step is handleDataUpdate of a reading
ReadingHandled == HandlerStep /\ lastOp' = "HandleDataUpdate"
\* the reading it handled
Handled == accepted'[Len(accepted')]

\* C31: the chart window is a FIFO of parallel sequences with a fixed
\* capacity: heartRateData, spO2Data and timeLabels always have the same
\* length, at most maxDataPoints; a sample that arrives below capacity is
\* appended to the three of them, and one that arrives at capacity also
\* drops the oldest entry of the three.
C31_ChartWindowFifo ==
    /\ [](/\ Len(heartRateData) = Len(spO2Data)
          /\ Len(spO2Data) = Len(timeLabels)
          /\ Len(heartRateData) <= maxDataPoints)
    /\ [][(ReadingHandled /\ ~isPaused) =>
            LET kept(w) == IF Len(w) = maxDataPoints THEN Tail(w) ELSE w
            IN  /\ heartRateData' = kept(heartRateData) \o <<Handled.heartRate>>
                /\ spO2Data' = kept(spO2Data) \o <<Handled.spO2>>
                /\ Len(timeLabels') = Len(heartRateData')
                /\ SubSeq(timeLabels', 1, Len(timeLabels') - 1)
                     = kept(timeLabels)]_vars

\* a sample arrived at capacity: the window holds the samples after the
\* first one, which differs from the second
C31_Witness ==
    /\ lastOp = "HandleDataUpdate"
    /\ ~isPaused
    /\ Len(accepted) = maxDataPoints + 1
    /\ Len(heartRateData) = maxDataPoints
    /\ \A i \in 1..maxDataPoints :
           /\ heartRateData[i] = accepted[i + 1].heartRate
           /\ spO2Data[i] = accepted[i + 1].spO2
    /\ accepted[1].heartRate # accepted[2].heartRate

\* the three sequences of the chart window
ChartWindow == <<heartRateData, spO2Data, timeLabels>>
\* the newest reading of the session buffer
Newest(sd) == sd.data[Len(sd.data)]

\* C32: pausing affects the chart window only.  Whether the chart is paused
\* or not, a reading that is accepted becomes the newest reading of the
\* session buffer, is written to localStorage when the write succeeds and
\* is shown with its values and their bands; while paused it leaves the
\* chart sequences unchanged, and otherwise it is the one sample pushed.
\* The Pause/Resume button flips the pause and changes neither the chart
\* sequences nor the session: nothing is replayed.
C32_PauseAffectsChartOnly ==
    [][/\ ReadingHandled =>
            /\ sessionData'.data # <<>>
            /\ PayloadOf(Newest(sessionData')) = Handled
            /\ sessionData'.metadata.totalReadings = Len(sessionData'.data)
            /\ lastWrite' = "ok" => stored' = JSONstringify(sessionData')
            /\ display'.heartRate = Handled.heartRate
            /\ display'.hrStatus = HeartRateStatus(Handled.heartRate)
            /\ display'.spO2 = Handled.spO2
            /\ display'.spO2Status = SpO2Status(Handled.spO2)
            /\ display'.dataPointCount = Len(sessionData'.data)
            /\ lastHeartRate' = Handled.heartRate
            /\ lastSpO2' = Handled.spO2
            /\ isPaused' = isPaused
            /\ IF isPaused
               THEN UNCHANGED ChartWindow
               ELSE /\ Len(heartRateData') <= Len(heartRateData) + 1
                    /\ heartRateData'[Len(heartRateData')] = Handled.heartRate
                    /\ spO2Data'[Len(spO2Data')] = Handled.spO2
                    /\ \A i \in 1..(Len(heartRateData') - 1) :
                           /\ heartRateData'[i] =
                                heartRateData[i + Len(heartRateData) + 1
                                                - Len(heartRateData')]
                           /\ spO2Data'[i] =
                                spO2Data[i + Len(spO2Data) + 1
                                           - Len(spO2Data')]
       /\ (HandlerStep /\ lastOp' = "TogglePause") =>
            /\ isPaused' = ~isPaused
            /\ UNCHANGED <<ChartWindow, sessionData, stored, display>>]_vars

\* a reading was accepted while the chart was paused: it is in the buffer,
\* in localStorage and on display, and the chart has fewer samples than the
\* buffer has readings
C32_Witness ==
    /\ isPaused
    /\ lastOp = "HandleDataUpdate"
    /\ Len(heartRateData) < Len(sessionData.data)
    /\ Len(sessionData.data) = Len(accepted)
    /\ stored = JSONstringify(sessionData)
    /\ display.heartRate = Newest(sessionData).heartRate

\* the chart was resumed: of three readings it holds the first and the
\* third, the second arrived while it was paused and was not replayed
ResumedWithoutReplay ==
    /\ ~isPaused
    /\ lastOp = "HandleDataUpdate"
    /\ Len(accepted) = 3
    /\ Len(sessionData.data) = 3
    /\ heartRateData = <<accepted[1].heartRate, accepted[3].heartRate>>
    /\ accepted[2].heartRate # accepted[3].heartRate

-----------------------------------------------------------------------------
(* Properties of the connection quality *)

\* the quality for a time since the last message, in milliseconds
Quality(since) ==
    IF since < 1000 THEN "Good" ELSE IF since < 3000 THEN "Fair" ELSE "Poor"

\* the instant the last validated message arrived, which is the instant
\* handleDataUpdate last showed a reading; Null before any
LastValidated == display.lastUpdate

\* C33: the connection quality is a function of the time since the last
\* validated message: null before any has arrived, Good under 1000 ms,
\* Fair under 3000 ms, Poor otherwise; a message that fails decoding or
\* validation does not refresh it.
C33_QualityFromValidatedMessages ==
    getLatency(lastMessageTime, now) =
        IF LastValidated = Null THEN "null"
        ELSE Quality(now - LastValidated)

\* the quality is that function of the time since the last message of any
\* kind: every onmessage refreshes it, nothing else does
C33_QualityFromAnyMessage ==
    /\ [](messageCount = 0 => getLatency(lastMessageTime, now) = "null")
    /\ [](messageCount > 0 =>
            getLatency(lastMessageTime, now) = Quality(now - lastMessageTime))
    /\ [][/\ (HandlerStep /\ lastOp' = "OnMessage") => lastMessageTime' = now
          /\ ~(HandlerStep /\ lastOp' = "OnMessage")
               => lastMessageTime' = lastMessageTime]_vars

\* three seconds after the last reading a text that does not parse arrives,
\* and the quality is Good
StaleQualityRefreshed ==
    /\ lastOp = "OnMessage"
    /\ callbacks = <<>>
    /\ LastValidated # Null
    /\ now - LastValidated >= 3000
    /\ getLatency(lastMessageTime, now) = "Good"

-----------------------------------------------------------------------------
(* Properties of the reconnect timers and of stale socket events *)

\* C34: at most one reconnect timer is pending: the manager has no pending
\* timer other than the one reconnectTimeout refers to.
C34_AtMostOneTimer ==
    PendingTimers(timers) \subseteq {reconnectTimeout}

\* two reconnect timers are pending at once
TwoTimersPending ==
    /\ Cardinality(PendingTimers(timers)) = 2
    /\ reconnectTimeout \in PendingTimers(timers)

\* C35: the state last notified agrees with the manager's current socket:
\* whenever that socket is open and no event handler is running, the state
\* last notified is 'connected', whatever events of discarded sockets were
\* delivered since.
C35_NotifiedStateAgrees ==
    (inTask = 0 /\ getState = "connected") => connState = "connected"

\* the close event of a discarded socket was handled while the current
\* socket is open, and the state last notified is not 'connected'
StaleCloseOverOpenSocket ==
    /\ inTask = 0
    /\ getState = "connected"
    /\ lastOp = "OnClose"
    /\ closeOf # "current"
    /\ connState \in {"disconnected", "connecting"}

\* C36: a reconnect is scheduled, and the attempt counter incremented, only
\* when the manager's current socket has closed or a socket could not be
\* constructed; the close event of a socket discarded by disconnect() does
\* neither, even when connect() was called before it was delivered.
C36_ReconnectOnlyForCurrentSocket ==
    [][(ReconnectScheduled \/ reconnectAttempts' > reconnectAttempts)
         => \/ lastOp' = "OnClose" /\ closeOf' = "current"
            \/ /\ lastOp' \in {"Connect", "ReconnectTimerFires"}
               /\ ConstructorThrows(url')]_vars

\* the close event of a socket discarded by disconnect() was handled after
\* connect() made a new socket: a reconnect is pending and counted although
\* the current socket is connecting or open
ReconnectForDiscardedSocket ==
    /\ lastOp = "OnClose"
    /\ closeOf = "discarded"
    /\ AlreadyConnected
    /\ reconnectAttempts > 0
    /\ reconnectTimeout \in PendingTimers(timers)

-----------------------------------------------------------------------------
(* Termination of the quota fallback *)

\* every setItem call fails with QuotaExceededError
QuotaAlways == <<"quota", "quota">>

\* C37: the quota fallback terminates.  In every state saveReading, a
\* confirmed clear() and exportJSON return even when every write to
\* localStorage fails with a quota error, and whatever its writes do, a
\* handler that persists the session makes at most two setItem calls, shows
\* at most two warnings and lets no exception out.
C37_QuotaFallbackTerminates ==
    /\ []((failures < MaxFailures) =>
            /\ \A data \in Payloads :
                   Len(accepted) < MaxReadings
                     => ENABLED HandleDataUpdate(data, QuotaAlways)
            /\ ENABLED ClearHistory(TRUE, QuotaAlways)
            /\ ENABLED ExportJSON(QuotaAlways))
    /\ [][(HandlerStep /\ MutatorReturned')
            => /\ writes' \in {1, 2}
               /\ Len(alerts') <= writes'
               /\ ~raised'
               /\ writes' = 2 => Len(Attempted.data) > keepCount]_vars

\* exportJSON over a full buffer with every write failing: two setItem
\* calls, two warnings, and it returned with the file offered
C37_Witness ==
    /\ lastOp = "ExportJSON"
    /\ writes = 2
    /\ lastWrite = "quota"
    /\ Len(alerts) = 2
    /\ ~raised
    /\ download # NoFile
    /\ Len(sessionData.data) = keepCount

-----------------------------------------------------------------------------
(* Properties of the bands over every number *)

Green == "#10b981"
Yellow == "#f59e0b"
Red == "#ef4444"

\* a heart rate, an SpO2 value has been shown
HeartRateShown == display.hrStatus # ""
SpO2Shown == display.spO2Status # ""

\* C38: the colour of the chart and the status use the same bands: for
\* every number, whole or not, the heart rate dataset is green, yellow or
\* red exactly when the status is Normal, Elevated or High, and the SpO2
\* dataset is green, yellow or red exactly when the status is Normal, Low
\* or Critical.
C38_ColourMatchesStatus ==
    /\ HeartRateShown =>
         /\ chartColor.heartRate = Green <=> display.hrStatus = "Normal"
         /\ chartColor.heartRate = Yellow <=> display.hrStatus = "Elevated"
         /\ chartColor.heartRate = Red <=> display.hrStatus = "High"
    /\ SpO2Shown =>
         /\ chartColor.spO2 = Green <=> display.spO2Status = "Normal"
         /\ chartColor.spO2 = Yellow <=> display.spO2Status = "Low"
         /\ chartColor.spO2 = Red <=> display.spO2Status = "Critical"

\* a heart rate strictly between 100 and 101 and an SpO2 value strictly
\* between 94 and 95 are shown: red and High, yellow and Low
C38_Witness ==
    /\ HeartRateShown
    /\ SpO2Shown
    /\ ~AtMost(display.heartRate, 100) /\ Under(display.heartRate, 101)
    /\ ~AtMost(display.spO2, 94) /\ Under(display.spO2, 95)
    /\ chartColor = [heartRate |-> Red, spO2 |-> Yellow]
    /\ display.hrStatus = "High"
    /\ display.spO2Status = "Low"

\* C39: the High band of the heart rate lies outside [60, 120]: every
\* heart rate v with 60 <= v <= 120, whole or not, is Normal or Elevated.
C39_HighOutsideSixtyToOneTwenty ==
    (HeartRateShown /\ AtLeast(display.heartRate, 60)
                    /\ AtMost(display.heartRate, 120))
        => display.hrStatus \in {"Normal", "Elevated"}

\* the whole heart rates from 60 to 120 are Normal or Elevated, and so are
\* the others up to 100 and from 101
C39_HighOutsideBands ==
    (HeartRateShown /\ AtLeast(display.heartRate, 60)
                    /\ AtMost(display.heartRate, 120)
                    /\ \/ AtMost(display.heartRate, 100)
                       \/ AtLeast(display.heartRate, 101))
        => display.hrStatus \in {"Normal", "Elevated"}

\* the heart rate 100.5 is shown as High
HeartRateInTheGapIsHigh ==
    /\ HeartRateShown
    /\ display.heartRate = Ratio(201, 2)
    /\ display.hrStatus = "High"

-----------------------------------------------------------------------------
(* The chart window and the session buffer *)

\* field f of the last Min(n, maxDataPoints) readings of the buffer
TailOf(data, f) ==
    LET n == Len(data)
        k == Min(n, maxDataPoints)
    IN  [i \in 1..k |-> data[n - k + i][f]]

\* C40: with the chart never paused, the chart window mirrors the tail of
\* the session buffer: the chart's heartRate and spO2 sequences are the
\* heartRate and spO2 fields of the last min(n, maxDataPoints) of the n
\* buffered readings, in the same order, and a confirmed clear empties the
\* buffer and the chart together.
C40_ChartMirrorsBuffer ==
    /\ [](/\ ~isPaused
          /\ heartRateData = TailOf(sessionData.data, "heartRate")
          /\ spO2Data = TailOf(sessionData.data, "spO2")
          /\ Len(timeLabels) = Len(heartRateData))
    /\ [][ConfirmedClear
            => /\ sessionData'.data = <<>>
               /\ heartRateData' = <<>>
               /\ spO2Data' = <<>>
               /\ timeLabels' = <<>>]_vars

\* more readings were accepted than the buffer holds: the chart shows the
\* last maxDataPoints of the buffer, two different ones among them
C40_Witness ==
    /\ lastOp = "HandleDataUpdate"
    /\ Len(accepted) > maxStorageItems
    /\ Len(sessionData.data) = maxStorageItems
    /\ Len(heartRateData) = maxDataPoints
    /\ heartRateData = TailOf(sessionData.data, "heartRate")
    /\ heartRateData[1] # heartRateData[Len(heartRateData)]
    /\ heartRateData[1] # spO2Data[1]

\* a confirmed clear after a reading had been shown: the buffer and the
\* chart are empty
ClearedTogether ==
    /\ lastOp = "ClearHistory"
    /\ answer = "yes"
    /\ display.lastUpdate # Null
    /\ sessionData.data = <<>>
    /\ heartRateData = <<>>
    /\ spO2Data = <<>>

====
